---- MODULE Spec2Model ----
(***************************************************************************)
(* Automated position-exit engine of memesnipertool:                       *)
(*   supabase/functions/auto-exit/index.ts      (monitor, price chain,     *)
(*                                               evaluator, trade executor)*)
(*   supabase/functions/solana-balance/index.ts (RPC fallback reader)      *)
(*                                                                         *)
(* JavaScript numbers are modelled as extended rationals: a finite value   *)
(* n/d in lowest terms, +Infinity, -Infinity or NaN, with the IEEE rules   *)
(* for the special values (rounding of finite values is not modelled).     *)
(***************************************************************************)
EXTENDS Integers, Sequences, FiniteSets, TLC

VARIABLES ev, fp, rpc, store, inv, sells, fee, es

vars == <<ev, fp, rpc, store, inv, sells, fee, es>>

(***************************************************************************)
(* Numbers                                                                 *)
(***************************************************************************)
Abs(x) == IF x < 0 THEN -x ELSE x

RECURSIVE GCD(_, _)
GCD(a, b) == IF b = 0 THEN a ELSE GCD(b, a % b)

NaN == [k |-> "nan", n |-> 0, d |-> 1]

Inf(s) == [k |-> "inf", n |-> s, d |-> 1]

Rat(n, d) ==
    LET g == GCD(Abs(n), d)
    IN  [k |-> "fin", n |-> n \div g, d |-> d \div g]

Fin(i) == Rat(i, 1)

Sgn(x) == IF x.n > 0 THEN 1 ELSE IF x.n < 0 THEN -1 ELSE 0

FNeg(a) == IF a.k = "nan" THEN NaN ELSE [a EXCEPT !.n = -a.n]

FAdd(a, b) ==
    IF a.k = "nan" \/ b.k = "nan" THEN NaN
    ELSE IF a.k = "inf" /\ b.k = "inf" THEN (IF a.n = b.n THEN a ELSE NaN)
    ELSE IF a.k = "inf" THEN a
    ELSE IF b.k = "inf" THEN b
    ELSE Rat(a.n * b.d + b.n * a.d, a.d * b.d)

FSub(a, b) == FAdd(a, FNeg(b))

FMul(a, b) ==
    IF a.k = "nan" \/ b.k = "nan" THEN NaN
    ELSE IF a.k = "inf" \/ b.k = "inf"
         THEN (IF Sgn(a) * Sgn(b) = 0 THEN NaN ELSE Inf(Sgn(a) * Sgn(b)))
    ELSE Rat(a.n * b.n, a.d * b.d)

FDiv(a, b) ==
    IF a.k = "nan" \/ b.k = "nan" THEN NaN
    ELSE IF a.k = "inf" THEN (IF b.k = "inf" THEN NaN
                              ELSE Inf(IF Sgn(b) < 0 THEN -a.n ELSE a.n))
    ELSE IF b.k = "inf" THEN Fin(0)
    ELSE IF b.n = 0 THEN (IF a.n = 0 THEN NaN ELSE Inf(Sgn(a)))
    ELSE Rat(Sgn(b) * a.n * b.d, a.d * Abs(b.n))

FLt(a, b) ==
    /\ a.k # "nan"
    /\ b.k # "nan"
    /\ IF a.k = "inf" THEN a.n < 0 /\ ~(b.k = "inf" /\ b.n < 0)
       ELSE IF b.k = "inf" THEN b.n > 0
       ELSE a.n * b.d < b.n * a.d

FGe(a, b) == a.k # "nan" /\ b.k # "nan" /\ ~FLt(a, b)

FLe(a, b) == a.k # "nan" /\ b.k # "nan" /\ ~FLt(b, a)

(***************************************************************************)
(* Exit Rule Evaluator                                                     *)
(***************************************************************************)
ProfitLossPercent_OverCurrentPrice(position, currentPrice) ==
    FMul(FDiv(FSub(currentPrice, position.entry_price), currentPrice), Fin(100))

\* line 172
ProfitLossPercent(position, currentPrice) ==
    FMul(FDiv(FSub(currentPrice, position.entry_price), position.entry_price),
         Fin(100))

checkExitConditions_StopFirst(position, currentPrice) ==
    LET profitLossPercent == ProfitLossPercent(position, currentPrice)
    IN  IF FLe(profitLossPercent, FNeg(position.stop_loss_percent))
        THEN [shouldExit |-> TRUE, reason |-> "stop_loss",
              profitLossPercent |-> profitLossPercent]
        ELSE IF FGe(profitLossPercent, position.profit_take_percent)
        THEN [shouldExit |-> TRUE, reason |-> "take_profit",
              profitLossPercent |-> profitLossPercent]
        ELSE [shouldExit |-> FALSE, reason |-> "null",
              profitLossPercent |-> profitLossPercent]

checkExitConditions(position, currentPrice) ==
    LET profitLossPercent == ProfitLossPercent(position, currentPrice)
    IN  IF FGe(profitLossPercent, position.profit_take_percent)
        THEN [shouldExit |-> TRUE, reason |-> "take_profit",
              profitLossPercent |-> profitLossPercent]
        ELSE IF FLe(profitLossPercent, FNeg(position.stop_loss_percent))
        THEN [shouldExit |-> TRUE, reason |-> "stop_loss",
              profitLossPercent |-> profitLossPercent]
        ELSE [shouldExit |-> FALSE, reason |-> "null",
              profitLossPercent |-> profitLossPercent]

(***************************************************************************)
(* Price Oracle Chain                                                      *)
(*                                                                         *)
(* A source's reply is [status, field]: status is "throw" (fetch rejects), *)
(* "http_error" (response.ok is false), "bad_json" (response.json()        *)
(* rejects) or "ok"; field is the value found at the source's price path:  *)
(* absent, the empty string, a string that is no number, a numeric string, *)
(* or a JSON number.                                                       *)
(***************************************************************************)
Null == [k |-> "null", n |-> 0, d |-> 1]

Sources == <<"dexscreener", "geckoterminal", "birdeye">>

Absent == [t |-> "absent", v |-> 0]

EmptyStr == [t |-> "empty", v |-> 0]

Garbage == [t |-> "garbage", v |-> 0]

NumStr(p) == [t |-> "str", v |-> p]

NumVal(p) == [t |-> "num", v |-> p]

\* JavaScript truthiness of a price field
Truthy(field) ==
    CASE field.t = "absent"  -> FALSE
      [] field.t = "empty"   -> FALSE
      [] field.t = "garbage" -> TRUE
      [] field.t = "str"     -> TRUE
      [] field.t = "num"     -> field.v # 0

\* parseFloat of a truthy price field
parseFloat(field) == IF field.t = "garbage" THEN NaN ELSE Fin(field.v)

NoConfig == [api_type |-> "none", is_enabled |-> FALSE, api_key_encrypted |-> "null"]

RECURSIVE FindFrom(_, _, _)
FindFrom(apiConfigs, apiType, i) ==
    IF i > Len(apiConfigs) THEN NoConfig
    ELSE IF apiConfigs[i].api_type = apiType /\ apiConfigs[i].is_enabled
         THEN apiConfigs[i]
         ELSE FindFrom(apiConfigs, apiType, i + 1)

\* apiConfigs.find(c => c.api_type === apiType && c.is_enabled)
FindEnabled(apiConfigs, apiType) == FindFrom(apiConfigs, apiType, 1)

\* the body of a source's try block: ret is the value returned from inside it
\* (Null: nothing returned), exc says that the body threw
TryBody(reply) ==
    IF reply.status \in {"throw", "bad_json"} THEN [ret |-> Null, exc |-> TRUE]
    ELSE IF reply.status = "ok" /\ Truthy(reply.field)
         THEN [ret |-> parseFloat(reply.field), exc |-> FALSE]
         ELSE [ret |-> Null, exc |-> FALSE]

SourceAttempt_NoCatch(reply) == TryBody(reply)

\* try { ... } catch (e) { console.error(...) }
SourceAttempt(reply) == [TryBody(reply) EXCEPT !.exc = FALSE]

SourceUsable_AnyChain(source, chain, apiConfigs) ==
    LET c == FindEnabled(apiConfigs, source)
    IN  IF source = "birdeye"
        THEN c # NoConfig /\ c.api_key_encrypted # "null"
        ELSE c # NoConfig

\* the guard in front of each source's block
SourceUsable(source, chain, apiConfigs) ==
    LET c == FindEnabled(apiConfigs, source)
    IN  IF source = "birdeye"
        THEN c # NoConfig /\ chain = "solana" /\ c.api_key_encrypted # "null"
        ELSE c # NoConfig

RECURSIVE ChainFrom(_, _, _, _, _)
ChainFrom(i, chain, apiConfigs, replies, calls) ==
    IF i > Len(Sources) THEN [price |-> Null, calls |-> calls, raised |-> FALSE]
    ELSE IF ~SourceUsable(Sources[i], chain, apiConfigs)
         THEN ChainFrom(i + 1, chain, apiConfigs, replies, calls)
         ELSE LET a  == SourceAttempt(replies[Sources[i]])
                  cs == Append(calls, Sources[i])
              IN  IF a.exc THEN [price |-> Null, calls |-> cs, raised |-> TRUE]
                  ELSE IF a.ret # Null
                       THEN [price |-> a.ret, calls |-> cs, raised |-> FALSE]
                       ELSE ChainFrom(i + 1, chain, apiConfigs, replies, cs)

fetchCurrentPrice_GeckoFirst(chain, apiConfigs, replies) ==
    LET a == ChainFrom(2, chain, apiConfigs, replies, <<>>)
    IN  IF a.price # Null \/ a.raised \/ ~SourceUsable("dexscreener", chain, apiConfigs)
        THEN a
        ELSE LET b == SourceAttempt(replies["dexscreener"])
             IN  [price |-> b.ret, calls |-> Append(a.calls, "dexscreener"),
                  raised |-> b.exc]

fetchCurrentPrice_ZeroWhenNotFound(chain, apiConfigs, replies) ==
    LET a == ChainFrom(1, chain, apiConfigs, replies, <<>>)
    IN  IF a.price = Null THEN [a EXCEPT !.price = Fin(0)] ELSE a

\* price: the value returned (Null: not found); calls: the sources fetched, in
\* order; raised: an exception left the function
fetchCurrentPrice(chain, apiConfigs, replies) ==
    ChainFrom(1, chain, apiConfigs, replies, <<>>)

(***************************************************************************)
(* Trade Executor                                                          *)
(*                                                                         *)
(* The trade API's reply is [kind, text, transactionId, txId]: kind is     *)
(* "throw" (fetch rejects; text is the message of the Error thrown, or     *)
(* undefined when the value thrown is no Error), "http_error" (response.ok *)
(* is false, text is the body), "bad_json" (a 2xx response whose body      *)
(* response.json() cannot parse, an empty body for one), "null_json" (a    *)
(* 2xx response whose body is the JSON value null) or "ok" (a 2xx response *)
(* whose body is a JSON object; transactionId and txId are its two id      *)
(* fields, "" when absent or empty).                                       *)
(***************************************************************************)
Undefined == "<undefined>"

\* error instanceof Error ? error.message : 'Sell execution failed'
CaughtMessage(text) == IF text = Undefined THEN "Sell execution failed" ELSE text

\* calls: the requests made to the trade-execution endpoint
executeSell(position, reason, tradeExecutionConfig, reply) ==
    IF reply.kind = "throw"
    THEN [success |-> FALSE, txId |-> Undefined, error |-> CaughtMessage(reply.text),
          calls |-> 1]
    ELSE IF reply.kind = "bad_json"
    THEN [success |-> FALSE, txId |-> Undefined,
          error |-> CaughtMessage("Unexpected end of JSON input"), calls |-> 1]
    ELSE IF reply.kind = "null_json"
    THEN [success |-> FALSE, txId |-> Undefined,
          error |-> CaughtMessage("Cannot read properties of null (reading 'transactionId')"),
          calls |-> 1]
    ELSE IF reply.kind = "http_error"
    THEN [success |-> FALSE, txId |-> Undefined,
          error |-> "Trade API error: " \o reply.text, calls |-> 1]
    ELSE [success |-> TRUE,
          txId |-> IF reply.transactionId # "" THEN reply.transactionId
                   ELSE IF reply.txId # "" THEN reply.txId
                   ELSE "pending",
          error |-> Undefined, calls |-> 1]


(***************************************************************************)
(* Idle values: a specification that exercises one component leaves the    *)
(* other components' variables at these.                                   *)
(***************************************************************************)
NoOut == [none |-> TRUE]

IdleEv == [pc |-> "idle"]

IdleFp == [pc |-> "idle"]

IdleRpc == [pc |-> "idle"]

IdleFee == [pc |-> "idle"]

IdleEs == [pc |-> "idle"]

(***************************************************************************)
(* SpecEval: checkExitConditions on its own                                *)
(***************************************************************************)
EvalEntryPrices == {0, 100, 200}

EvalTakePercents == {-10, 10, 50}

EvalStopPercents == {-20, 0, 20}

EvalPrices == {NaN} \cup {Fin(p) : p \in {0, 79, 80, 81, 100, 110, 149, 150, 155, 300}}

EvalInit ==
    /\ ev \in [pc : {"call"},
               position : [entry_price : {Fin(p) : p \in EvalEntryPrices},
                           profit_take_percent : {Fin(p) : p \in EvalTakePercents},
                           stop_loss_percent : {Fin(p) : p \in EvalStopPercents}],
               currentPrice : EvalPrices,
               out : {NoOut}]
    /\ fp = IdleFp
    /\ rpc = IdleRpc
    /\ store = <<>>
    /\ inv = <<>>
    /\ sells = <<>>
    /\ fee = IdleFee
    /\ es = IdleEs

Evaluate ==
    /\ ev.pc = "call"
    /\ ev' = [ev EXCEPT !.pc = "returned",
                        !.out = checkExitConditions(ev.position, ev.currentPrice)]
    /\ UNCHANGED <<fp, rpc, store, inv, sells, fee, es>>

EvalNext == Evaluate

SpecEval == EvalInit /\ [][EvalNext]_vars

(***************************************************************************)
(* SpecPrice: fetchCurrentPrice on its own                                 *)
(***************************************************************************)
SourceSet == {Sources[i] : i \in DOMAIN Sources}

\* the price each source quotes in SpecPrice (distinct, to tell them apart)
FpQuote == [dexscreener |-> 101, geckoterminal |-> 102, birdeye |-> 103]

FpReplies(s) ==
    {[status |-> st, field |-> Absent] : st \in {"throw", "http_error", "bad_json", "ok"}}
    \cup {[status |-> "ok", field |-> f] : f \in {Garbage, NumStr(FpQuote[s])}}

Orders == {o \in [1..Len(Sources) -> SourceSet] : \A i, j \in DOMAIN o : i # j => o[i] # o[j]}

\* a configuration list: one row per price source, in any order
FpConfigLists ==
    {[i \in 1..Len(Sources) |->
        [api_type |-> o[i], is_enabled |-> en[o[i]],
         api_key_encrypted |-> IF o[i] = "birdeye" THEN key ELSE "null"]] :
     o \in Orders, en \in [SourceSet -> BOOLEAN], key \in {"null", "key"}}

Chains == {"solana", "eth"}

PriceInit ==
    /\ fp \in [pc : {"call"}, chain : Chains, apiConfigs : FpConfigLists,
               replies : {r \in [SourceSet -> UNION {FpReplies(s) : s \in SourceSet}] :
                            \A s \in SourceSet : r[s] \in FpReplies(s)},
               out : {NoOut}]
    /\ ev = IdleEv
    /\ rpc = IdleRpc
    /\ store = <<>>
    /\ inv = <<>>
    /\ sells = <<>>
    /\ fee = IdleFee
    /\ es = IdleEs

FetchPrice ==
    /\ fp.pc = "call"
    /\ fp' = [fp EXCEPT !.pc = "returned",
                        !.out = fetchCurrentPrice(fp.chain, fp.apiConfigs, fp.replies)]
    /\ UNCHANGED <<ev, rpc, store, inv, sells, fee, es>>

PriceNext == FetchPrice

SpecPrice == PriceInit /\ [][PriceNext]_vars

(***************************************************************************)
(* Claims about the Exit Rule Evaluator                                    *)
(***************************************************************************)
\* the decision the claim prescribes, from the two threshold tests
C1_Decision(takeProfitHit, stopLossHit) ==
    IF takeProfitHit THEN [shouldExit |-> TRUE, reason |-> "take_profit"]
    ELSE IF stopLossHit THEN [shouldExit |-> TRUE, reason |-> "stop_loss"]
    ELSE [shouldExit |-> FALSE, reason |-> "null"]

\* the two threshold tests in integer arithmetic, for a finite price c and an
\* entry price e > 0:  (c - e) / e * 100 >= tp  iff  (c - e) * 100 >= tp * e
C1_ExpectedInt(e, c, tp, sl) ==
    C1_Decision((c - e) * 100 >= tp * e, (c - e) * 100 <= (-sl) * e)

\* C1: checkExitConditions returns take_profit when profitLossPercent >=
\* profit_take_percent, otherwise stop_loss when profitLossPercent <=
\* -stop_loss_percent, otherwise hold (shouldExit = false, reason = null); both
\* comparisons are inclusive, the thresholds are the position's own, and
\* take_profit wins when both tests are true.
C1_ExitDecisionOrder ==
    ev.pc = "returned" =>
        LET pos == ev.position
            out == ev.out
            pl  == out.profitLossPercent
            got == [shouldExit |-> out.shouldExit, reason |-> out.reason]
        IN  /\ got = C1_Decision(FGe(pl, pos.profit_take_percent),
                                 FLe(pl, FNeg(pos.stop_loss_percent)))
            /\ (ev.currentPrice.k = "fin" /\ pos.entry_price.n > 0) =>
                   /\ got = C1_ExpectedInt(pos.entry_price.n, ev.currentPrice.n,
                                           pos.profit_take_percent.n,
                                           pos.stop_loss_percent.n)
                   /\ pl.n * pos.entry_price.n
                        = (ev.currentPrice.n - pos.entry_price.n) * 100 * pl.d
            /\ ev.currentPrice.k = "nan" => got = C1_Decision(FALSE, FALSE)

\* C1 witness: entry 100, take-profit 10, stop-loss -20, price 110: the P&L of
\* 10 percent is exactly at the take-profit threshold and also satisfies the
\* stop-loss test (10 <= 20), and take_profit is returned.
C1_Witness ==
    /\ ev.pc = "returned"
    /\ ev.position = [entry_price |-> Fin(100), profit_take_percent |-> Fin(10),
                      stop_loss_percent |-> Fin(-20)]
    /\ ev.currentPrice = Fin(110)
    /\ ev.out.reason = "take_profit"
    /\ FLe(ev.out.profitLossPercent, FNeg(ev.position.stop_loss_percent))

(***************************************************************************)
(* Claims about the Price Oracle Chain                                     *)
(***************************************************************************)
SourceIndex(s) == CHOOSE i \in DOMAIN Sources : Sources[i] = s

\* a reply from which the source's block returns a price
Yields(reply) == reply.status = "ok" /\ reply.field.t \in {"garbage", "str", "num"}

\* an enabled row of the kind is in the list, wherever it stands
HasEnabled(apiConfigs, s) ==
    \E i \in DOMAIN apiConfigs : apiConfigs[i].api_type = s /\ apiConfigs[i].is_enabled

\* C8: fetchCurrentPrice queries the sources in the fixed order dexscreener,
\* geckoterminal, birdeye whatever the order of the configuration list, returns
\* the price of the first source that yields one and calls no source after it;
\* if source 1 fails and source 2 succeeds the result is source 2's price and
\* source 3 is never called.
C8_FixedOrderFirstSuccess ==
    fp.pc = "returned" =>
        LET calls == fp.out.calls
            n     == Len(calls)
        IN  /\ \A i, j \in 1..n : i < j => SourceIndex(calls[i]) < SourceIndex(calls[j])
            /\ \A i \in 1..n : i < n => ~Yields(fp.replies[calls[i]])
            /\ fp.out.price # Null <=> (n > 0 /\ Yields(fp.replies[calls[n]]))
            /\ fp.out.price # Null => fp.out.price = parseFloat(fp.replies[calls[n]].field)
            /\ (/\ HasEnabled(fp.apiConfigs, "dexscreener")
                /\ HasEnabled(fp.apiConfigs, "geckoterminal")
                /\ ~Yields(fp.replies["dexscreener"])
                /\ Yields(fp.replies["geckoterminal"]))
               => /\ calls = <<"dexscreener", "geckoterminal">>
                  /\ fp.out.price = parseFloat(fp.replies["geckoterminal"].field)

\* C8 witness: the list is ordered birdeye, geckoterminal, dexscreener, all
\* enabled and usable; dexscreener fails, geckoterminal quotes 102, birdeye would
\* quote 103: the result is 102 and birdeye is not called.
C8_Witness ==
    /\ fp.pc = "returned"
    /\ fp.chain = "solana"
    /\ [i \in 1..3 |-> fp.apiConfigs[i].api_type] = <<"birdeye", "geckoterminal", "dexscreener">>
    /\ \A i \in 1..3 : fp.apiConfigs[i].is_enabled
    /\ fp.apiConfigs[1].api_key_encrypted = "key"
    /\ fp.replies["dexscreener"].status = "http_error"
    /\ fp.replies["geckoterminal"] = [status |-> "ok", field |-> NumStr(102)]
    /\ fp.replies["birdeye"] = [status |-> "ok", field |-> NumStr(103)]
    /\ fp.out.price = Fin(102)
    /\ fp.out.calls = <<"dexscreener", "geckoterminal">>

\* the sources the code's guards let through, in the fixed order
UsableSources(chain, apiConfigs) ==
    SelectSeq(Sources, LAMBDA s :
        /\ HasEnabled(apiConfigs, s)
        /\ s = "birdeye" =>
             /\ chain = "solana"
             /\ \E i \in DOMAIN apiConfigs :
                    /\ apiConfigs[i].api_type = s
                    /\ apiConfigs[i].is_enabled
                    /\ apiConfigs[i].api_key_encrypted # "null")

\* C9: fetchCurrentPrice never raises: whatever each source does (transport
\* exception, non-2xx status, unparsable body, body without a price field) it
\* returns a price from some source or null, and a source's failure only moves
\* the chain to the next source.
C9_NeverRaises ==
    fp.pc = "returned" =>
        LET calls  == fp.out.calls
            usable == UsableSources(fp.chain, fp.apiConfigs)
        IN  /\ ~fp.out.raised
            /\ fp.out.price.k \in {"null", "fin", "nan"}
            /\ \A i \in 1..Len(usable) :
                   (\A j \in 1..(i - 1) : ~Yields(fp.replies[usable[j]]))
                       => (i <= Len(calls) /\ calls[i] = usable[i])
            /\ (\A i \in 1..Len(usable) : ~Yields(fp.replies[usable[i]]))
                   => (fp.out.price = Null /\ calls = usable)

\* C9 witness: all three sources are usable and fail in three different ways
\* (fetch rejects, unparsable body, non-2xx); all three are called and the
\* result is null.
C9_Witness ==
    /\ fp.pc = "returned"
    /\ fp.replies["dexscreener"].status = "throw"
    /\ fp.replies["geckoterminal"].status = "bad_json"
    /\ fp.replies["birdeye"].status = "http_error"
    /\ fp.out.calls = Sources
    /\ fp.out.price = Null
    /\ ~fp.out.raised

\* the source has an enabled configuration and, where it needs one, a key
Configured(apiConfigs, s) ==
    \E i \in DOMAIN apiConfigs :
        /\ apiConfigs[i].api_type = s
        /\ apiConfigs[i].is_enabled
        /\ s = "birdeye" => apiConfigs[i].api_key_encrypted # "null"

Attempted(calls, s) == \E i \in DOMAIN calls : calls[i] = s

\* C31 (as stated): when fetchCurrentPrice returns not-found, every source that
\* is enabled and has its credentials was attempted, whatever the chain tag.
C31_EveryConfiguredSourceAttempted ==
    (fp.pc = "returned" /\ fp.out.price = Null) =>
        \A s \in SourceSet : Configured(fp.apiConfigs, s) => Attempted(fp.out.calls, s)

\* C31 (amended): a source is skipped only when it is disabled, lacks its
\* credential or, for birdeye, when the chain is not solana: when
\* fetchCurrentPrice returns not-found, the sources attempted are exactly the
\* enabled ones with their credentials, birdeye only for solana; and whenever
\* a source is attempted, every such source before it was attempted and failed.
C31_SkippedOnlyWhenUnusable ==
    fp.pc = "returned" =>
        LET due(s) == /\ Configured(fp.apiConfigs, s)
                      /\ s = "birdeye" => fp.chain = "solana"
        IN  /\ \A s \in SourceSet : Attempted(fp.out.calls, s) => due(s)
            /\ fp.out.price = Null =>
                  \A s \in SourceSet : due(s) => Attempted(fp.out.calls, s)
            /\ \A s, t \in SourceSet :
                  (Attempted(fp.out.calls, s) /\ due(t) /\ SourceIndex(t) < SourceIndex(s))
                     => Attempted(fp.out.calls, t) /\ ~Yields(fp.replies[t])

\* on chain eth with all three sources enabled and birdeye holding a key, the
\* first two fail: they are the only ones attempted and the result is not-found
C31_Witness ==
    /\ fp.pc = "returned"
    /\ fp.chain = "eth"
    /\ \A s \in SourceSet : Configured(fp.apiConfigs, s)
    /\ fp.out.calls = <<"dexscreener", "geckoterminal">>
    /\ fp.out.price = Null

\* the price field of a reply is there and parses as a number
NumericField(reply) == reply.status = "ok" /\ reply.field.t \in {"str", "num"}

\* C32: a value other than null returned by fetchCurrentPrice is a finite
\* number, and an attempted source whose reply has no price field, or one that
\* does not parse as a number, is passed over: the value returned does not come
\* from it and the next usable source is attempted.
C32_ShapeDeviationIsNoPrice ==
    fp.pc = "returned" =>
        LET calls == fp.out.calls
        IN  /\ fp.out.price # Null => fp.out.price.k = "fin"
            /\ \A i \in DOMAIN calls :
                  ~NumericField(fp.replies[calls[i]]) =>
                      /\ i < Len(calls) \/ fp.out.price = Null
                      /\ \A t \in SourceSet :
                            (SourceIndex(t) > SourceIndex(calls[i])
                               /\ SourceUsable(t, fp.chain, fp.apiConfigs))
                                  => Attempted(calls, t)

(***************************************************************************)
(* RPC Fallback Reader                                                     *)
(*                                                                         *)
(* An endpoint's reply is one of                                           *)
(*   [kind |-> "transport"]                    fetch rejects               *)
(*   [kind |-> "http", status |-> 429 or 500]  response.ok is false        *)
(*   [kind |-> "bad_json"]                     response.json() rejects     *)
(*   [kind |-> "app_error", code, message]     the body has an error member*)
(*   [kind |-> "ok", value]                    the body has no error member*)
(***************************************************************************)
FALLBACK_RPCS ==
    <<"https://api.mainnet-beta.solana.com",
      "https://solana-mainnet.g.alchemy.com/v2/demo",
      "https://rpc.ankr.com/solana",
      "https://solana.public-rpc.com">>

\* a configured SOLANA_RPC_URL that is none of the fallbacks
CustomRpc == "https://custom.rpc.example"

PrimaryRpcs == {FALLBACK_RPCS[i] : i \in DOMAIN FALLBACK_RPCS} \cup {CustomRpc}

RateLimitCode == -32429

NoMessage == "<undefined>"

RpcReplies ==
    {[kind |-> "transport", status |-> 0, code |-> 0, message |-> NoMessage, value |-> 0],
     [kind |-> "bad_json", status |-> 0, code |-> 0, message |-> NoMessage, value |-> 0]}
    \cup {[kind |-> "http", status |-> st, code |-> 0, message |-> NoMessage, value |-> 0] :
            st \in {429, 500}}
    \cup {[kind |-> "app_error", status |-> 200, code |-> c, message |-> m, value |-> 0] :
            c \in {RateLimitCode, -32602},
            m \in {NoMessage, "max usage reached", "Invalid params", "429 Too Many Requests"}}
    \cup {[kind |-> "ok", status |-> 200, code |-> 0, message |-> NoMessage, value |-> v] :
            v \in {-1, -2, 5000}}

\* result.value of an "ok" reply: -1 stands for a missing value, -2 for a value
\* that Number() turns into NaN, anything else is a lamport amount
ValueLamports(v) == IF v < 0 THEN 0 ELSE v

\* String.prototype.includes on the messages that occur in the model
Includes(message, needle) ==
    CASE needle = "max usage" -> message = "max usage reached"
      [] needle = "429"       -> message \in {"RPC error 429: ", "429 Too Many Requests"}

HttpErrorMessage(status) == IF status = 429 THEN "RPC error 429: " ELSE "RPC error 500: "

getBalanceLamports_CodeOnly(reply) ==
    CASE reply.kind = "transport" -> [ok |-> FALSE, lamports |-> 0, message |-> "fetch failed"]
      [] reply.kind = "http" ->
            [ok |-> FALSE, lamports |-> 0, message |-> HttpErrorMessage(reply.status)]
      [] reply.kind = "bad_json" ->
            [ok |-> FALSE, lamports |-> 0, message |-> "Unexpected token"]
      [] reply.kind = "app_error" ->
            IF reply.code = RateLimitCode
            THEN [ok |-> FALSE, lamports |-> 0, message |-> "RATE_LIMITED"]
            ELSE [ok |-> FALSE, lamports |-> 0,
                  message |-> IF reply.message # NoMessage THEN reply.message
                              ELSE "RPC returned an error"]
      [] reply.kind = "ok" ->
            [ok |-> TRUE, lamports |-> ValueLamports(reply.value), message |-> NoMessage]

\* [ok, lamports] on a return, [~ok, message] on a throw
getBalanceLamports(reply) ==
    CASE reply.kind = "transport" -> [ok |-> FALSE, lamports |-> 0, message |-> "fetch failed"]
      [] reply.kind = "http" ->
            [ok |-> FALSE, lamports |-> 0, message |-> HttpErrorMessage(reply.status)]
      [] reply.kind = "bad_json" ->
            [ok |-> FALSE, lamports |-> 0, message |-> "Unexpected token"]
      [] reply.kind = "app_error" ->
            IF reply.code = RateLimitCode
               \/ (reply.message # NoMessage /\ Includes(reply.message, "max usage"))
            THEN [ok |-> FALSE, lamports |-> 0, message |-> "RATE_LIMITED"]
            ELSE [ok |-> FALSE, lamports |-> 0,
                  message |-> IF reply.message # NoMessage THEN reply.message
                              ELSE "RPC returned an error"]
      [] reply.kind = "ok" ->
            [ok |-> TRUE, lamports |-> ValueLamports(reply.value), message |-> NoMessage]

RpcsToTry_PrimaryUnlessFallback(primaryRpc) ==
    SelectSeq(<<primaryRpc>>, LAMBDA r : \A k \in DOMAIN FALLBACK_RPCS : FALLBACK_RPCS[k] # r)

RpcsToTry_NoFilter(primaryRpc) == <<primaryRpc>> \o FALLBACK_RPCS

\* [primaryRpc, ...FALLBACK_RPCS.filter(r => r !== primaryRpc)]
RpcsToTry(primaryRpc) ==
    <<primaryRpc>> \o SelectSeq(FALLBACK_RPCS, LAMBDA r : r # primaryRpc)

IsRateLimit_TagOnly(message) == message = "RATE_LIMITED"

\* line 58: the test made on the error of the current attempt
IsRateLimit(message) == message = "RATE_LIMITED" \/ Includes(message, "429")

\* no endpoint has answered yet
NoRpcReply == [kind |-> "none", status |-> 0, code |-> 0, message |-> NoMessage, value |-> 0]

\* attempts, errors and last are history: the endpoints called, the messages of
\* the errors caught, and the reply the latest endpoint called gave
RpcInit ==
    /\ rpc \in [pc : {"call"}, primaryRpc : PrimaryRpcs, rpcsToTry : {<<>>}, i : {0},
                attempts : {<<>>}, errors : {<<>>}, lamports : {-1}, thrown : {NoMessage},
                last : {NoRpcReply}]
    /\ ev = IdleEv
    /\ fp = IdleFp
    /\ store = <<>>
    /\ inv = <<>>
    /\ sells = <<>>
    /\ fee = IdleFee
    /\ es = IdleEs

\* line 51: the candidate list is built and the loop is entered
RpcStart ==
    /\ rpc.pc = "call"
    /\ rpc' = [rpc EXCEPT !.pc = "loop", !.rpcsToTry = RpcsToTry(rpc.primaryRpc), !.i = 0]
    /\ UNCHANGED <<ev, fp, store, inv, sells, fee, es>>

\* one iteration of the loop (i is the code's 0-based index); the throw after
\* the loop is taken when the loop ends without returning or throwing
RpcAttempt ==
    /\ rpc.pc = "loop"
    /\ IF rpc.i >= Len(rpc.rpcsToTry)
       THEN rpc' = [rpc EXCEPT !.pc = "thrown", !.thrown = "No RPC available"]
       ELSE \E reply \in RpcReplies :
              LET r    == getBalanceLamports(reply)
                  url  == rpc.rpcsToTry[rpc.i + 1]
                  seen == [rpc EXCEPT !.attempts = Append(@, url), !.last = reply]
              IN  IF r.ok
                  THEN rpc' = [seen EXCEPT !.pc = "returned", !.lamports = r.lamports]
                  ELSE IF rpc.i = Len(rpc.rpcsToTry) - 1
                       THEN rpc' = [seen EXCEPT
                                      !.pc = "thrown",
                                      !.errors = Append(@, r.message),
                                      !.thrown = IF IsRateLimit(r.message)
                                                 THEN "All RPCs rate limited"
                                                 ELSE r.message]
                       ELSE rpc' = [seen EXCEPT !.errors = Append(@, r.message),
                                                !.i = @ + 1]
    /\ UNCHANGED <<ev, fp, store, inv, sells, fee, es>>

RpcNext == RpcStart \/ RpcAttempt

SpecRpc == RpcInit /\ [][RpcNext]_vars

\* every RPC call resolves or fails: an iteration that is waiting for its
\* endpoint gets its answer
SpecRpcFair == RpcInit /\ [][RpcNext]_vars /\ WF_vars(RpcNext)

(***************************************************************************)
(* Claims about the RPC Fallback Reader                                    *)
(***************************************************************************)
FallbackIndex(url) == CHOOSE i \in DOMAIN FALLBACK_RPCS : FALLBACK_RPCS[i] = url

\* C10: getBalanceWithFallback attempts the primary endpoint first, then the
\* fixed fallbacks in list order without the primary; every candidate is
\* attempted at most once, at most N+1 attempts are made for N fallbacks, and the
\* first successful response ends the chain with no later endpoint called.
C10_PrimaryThenFallbacksOnce ==
    LET a == rpc.attempts
        n == Len(a)
    IN  rpc.pc # "idle" =>
          /\ n <= Len(FALLBACK_RPCS) + 1
          /\ n >= 1 => a[1] = rpc.primaryRpc
          /\ \A j, k \in 1..n : j # k => a[j] # a[k]
          /\ \A k \in 2..n :
                /\ \E m \in DOMAIN FALLBACK_RPCS : FALLBACK_RPCS[m] = a[k]
                /\ \A m \in 1..(FallbackIndex(a[k]) - 1) :
                      FALLBACK_RPCS[m] # rpc.primaryRpc
                          => \E j \in 2..(k - 1) : a[j] = FALLBACK_RPCS[m]
          \* every attempt but the last one failed; a return follows a success
          /\ rpc.pc = "returned" => (n >= 1 /\ Len(rpc.errors) = n - 1)
          /\ rpc.pc \in {"loop", "thrown"} => Len(rpc.errors) = n
          /\ rpc.pc = "thrown" =>
                n = Len(FALLBACK_RPCS) + (IF rpc.primaryRpc = CustomRpc THEN 1 ELSE 0)

\* C10 witness: the primary is the third fallback; it and the first fallback
\* fail, the second fallback answers: three attempts, the fourth fallback and a
\* second try of the primary never happen.
C10_Witness ==
    /\ rpc.pc = "returned"
    /\ rpc.primaryRpc = FALLBACK_RPCS[3]
    /\ rpc.attempts = <<FALLBACK_RPCS[3], FALLBACK_RPCS[1], FALLBACK_RPCS[2]>>
    /\ Len(rpc.errors) = 2
    /\ rpc.lamports = 5000

\* an error an endpoint answers when it limits the caller's rate: the JSON-RPC
\* rate-limit code or "max usage" message (both surface as RATE_LIMITED), an
\* HTTP 429, or a JSON-RPC error whose message says 429
RateLimitShaped(message) ==
    message \in {"RATE_LIMITED", "RPC error 429: ", "429 Too Many Requests"}

\* C11: if every candidate endpoint tried by getBalanceWithFallback fails with a
\* rate-limit-shaped error, the error it throws has exactly the message
\* "All RPCs rate limited".
C11_AllRateLimitedMessage ==
    (/\ rpc.pc = "thrown"
     /\ Len(rpc.errors) >= 1
     /\ \A k \in DOMAIN rpc.errors : RateLimitShaped(rpc.errors[k]))
        => rpc.thrown = "All RPCs rate limited"

\* C11 witness: a custom primary and the four fallbacks all fail, with the three
\* shapes of a rate limit among the five failures (the last one an HTTP 429),
\* and "All RPCs rate limited" is thrown.
C11_Witness ==
    /\ rpc.pc = "thrown"
    /\ rpc.primaryRpc = CustomRpc
    /\ rpc.errors = <<"RATE_LIMITED", "RPC error 429: ", "429 Too Many Requests",
                      "RATE_LIMITED", "RPC error 429: ">>
    /\ rpc.thrown = "All RPCs rate limited"

\* C12: if every candidate endpoint fails and not every observed failure was a
\* rate limit, the error thrown carries the last endpoint's underlying error
\* message; "All RPCs rate limited" is thrown only if every observed failure
\* was a rate limit.
C12_MixedFailuresLastMessage ==
    (/\ rpc.pc = "thrown"
     /\ Len(rpc.errors) >= 1
     /\ \E k \in DOMAIN rpc.errors : ~RateLimitShaped(rpc.errors[k]))
        => /\ rpc.thrown = rpc.errors[Len(rpc.errors)]
           /\ rpc.thrown # "All RPCs rate limited"

\* the message of the error the latest endpoint's failure was caught with
LastError == rpc.errors[Len(rpc.errors)]

\* C33: an application-level RPC error is raised as RATE_LIMITED exactly when
\* its code is -32429 or its message contains "max usage"; any other one is
\* raised with its own message, or "RPC returned an error" when it has none; a
\* non-2xx response is raised as "RPC error <status>: ...".
C33_ErrorClassification ==
    /\ rpc.last.kind = "app_error" =>
          /\ rpc.pc # "returned" /\ Len(rpc.errors) = Len(rpc.attempts)
          /\ LastError = "RATE_LIMITED"
                <=> (rpc.last.code = -32429 \/ rpc.last.message = "max usage reached")
          /\ LastError # "RATE_LIMITED" =>
                LastError = (IF rpc.last.message = NoMessage THEN "RPC returned an error"
                             ELSE rpc.last.message)
    /\ rpc.last.kind = "http" =>
          /\ rpc.pc # "returned" /\ Len(rpc.errors) = Len(rpc.attempts)
          /\ rpc.last.status = 429 => LastError = "RPC error 429: "
          /\ rpc.last.status = 500 => LastError = "RPC error 500: "

\* C33 witness: the primary answered code -32602 with the message "max usage
\* reached" and was caught as RATE_LIMITED; the next endpoint answered the same
\* code with "Invalid params" and was caught with that message.
C33_Witness ==
    /\ rpc.pc = "loop"
    /\ rpc.errors = <<"RATE_LIMITED", "Invalid params">>
    /\ rpc.last.kind = "app_error"
    /\ rpc.last.code = -32602
    /\ rpc.last.message = "Invalid params"

\* C39: a balance is returned only from a reply that carried a numeric
\* result.value, and is that value; a 2xx reply without an error member and
\* without a usable result.value counts as a failure of its endpoint, after
\* which the next candidate is tried.
C39_BalanceOnlyFromNumericValue ==
    /\ rpc.pc = "returned" =>
          /\ rpc.last.kind = "ok"
          /\ rpc.last.value >= 0
          /\ rpc.lamports = rpc.last.value
    /\ (rpc.last.kind = "ok" /\ rpc.last.value < 0) =>
          /\ rpc.pc # "returned"
          /\ Len(rpc.errors) = Len(rpc.attempts)

\* the call is over
RpcDone == rpc.pc \in {"returned", "thrown"}

\* the loop makes one pass over a list that is not empty, and a throw comes
\* from the failure of the last candidate
OnePass ==
    rpc.pc \in {"loop", "returned", "thrown"} =>
        /\ Len(rpc.rpcsToTry) >= 1
        /\ Len(rpc.attempts) <= Len(rpc.rpcsToTry)
        /\ \A k \in DOMAIN rpc.attempts : rpc.attempts[k] = rpc.rpcsToTry[k]
        /\ rpc.pc = "returned" => rpc.lamports >= 0 /\ rpc.thrown = NoMessage
        /\ rpc.pc = "thrown" =>
              /\ rpc.thrown # "No RPC available"
              /\ rpc.attempts = rpc.rpcsToTry
              /\ Len(rpc.errors) = Len(rpc.rpcsToTry)
              /\ rpc.thrown \in {LastError, "All RPCs rate limited"}

\* C40: as long as every RPC call resolves or fails, getBalanceWithFallback
\* comes to an end after at most one pass over its candidate list, returning
\* a balance or throwing from the failure of the last candidate; the list is
\* never empty and "No RPC available" is never thrown.
C40_TerminatesInOnePass == []OnePass /\ <>RpcDone

\* C40 witness: with one of the fallbacks as primary the list has four
\* candidates; all four failed and the last failure was thrown.
C40_Witness ==
    /\ rpc.pc = "thrown"
    /\ rpc.primaryRpc = FALLBACK_RPCS[2]
    /\ Len(rpc.attempts) = 4
    /\ rpc.thrown = "Invalid params"

(***************************************************************************)
(* Position Monitor (the serve handler of auto-exit)                       *)
(*                                                                         *)
(* store is the positions table; inv[i] is the state of handler            *)
(* invocation i; sells is the log of the calls made to the trade API.      *)
(* Every await of the handler that touches the table or the trade API is   *)
(* an action of its own, so invocations interleave at the awaits.          *)
(***************************************************************************)
\* rows of the positions table
NumPositions == 5

PosIds == 1..NumPositions

\* two invocations of the handler, which may overlap in every way or follow one
\* another
Invs == {1, 2}

Caller == "u1"

\* the status of the rows before any monitoring: rows 1 and 2 are open, row 3 is
\* open and another user's, row 4 is pending, the rows after it are closed
InitialStatus(p) ==
    IF p <= 3 THEN "open" ELSE IF p = 4 THEN "pending" ELSE "closed"

\* a row of the table before any monitoring; rows 1 and 2 have different bands;
\* a closed row carries the exit fields of the sell that closed it
InitialPosition(p) ==
    [id |-> p,
     user_id |-> IF p = 3 THEN "u2" ELSE Caller,
     chain |-> "solana",
     entry_price |-> Fin(100),
     current_price |-> Fin(100),
     amount |-> Fin(2),
     entry_value |-> Fin(200),
     current_value |-> Fin(200),
     profit_loss_percent |-> Fin(0),
     profit_loss_value |-> Fin(0),
     profit_take_percent |-> IF p % 2 = 1 THEN Fin(50) ELSE Fin(60),
     stop_loss_percent |-> IF p % 2 = 1 THEN Fin(30) ELSE Fin(20),
     status |-> InitialStatus(p),
     exit_reason |-> IF InitialStatus(p) = "closed" THEN "stop_loss" ELSE "null",
     exit_price |-> IF InitialStatus(p) = "closed" THEN Fin(100) ELSE Null,
     exit_tx_id |-> IF InitialStatus(p) = "closed" THEN "tx0" ELSE "null"]

\* prices quoted by the sources in the monitor's runs: with entry price 100, 80
\* is exactly at position 2's stop-loss and inside position 1's band, 150 is
\* exactly at position 1's take-profit and inside position 2's band
MonitorPrices == {80, 150}

QuoteReply(q) == [status |-> "ok", field |-> NumStr(q)]

FailReply == [status |-> "http_error", field |-> Absent]

\* what the three sources answer for one token: all fail, the first quotes, or
\* the first fails and the second quotes
AnyQuote(replies) ==
    \E s \in SourceSet : replies[s].status = "ok" /\ replies[s].field # Absent

\* the price the sources' answers hold (-1: none)
QuotedPrice(replies) ==
    IF \E s \in SourceSet, q \in MonitorPrices : replies[s] = QuoteReply(q)
    THEN CHOOSE q \in MonitorPrices : \E s \in SourceSet : replies[s] = QuoteReply(q)
    ELSE -1

MonitorReplies ==
    {[s \in SourceSet |-> FailReply]}
    \cup {[s \in SourceSet |-> IF s = "dexscreener" THEN QuoteReply(q) ELSE FailReply] :
            q \in MonitorPrices}
    \cup {[s \in SourceSet |-> IF s = "geckoterminal" THEN QuoteReply(q) ELSE FailReply] :
            q \in MonitorPrices}

PriceConfigs ==
    <<[api_type |-> "dexscreener", is_enabled |-> TRUE, api_key_encrypted |-> "null"],
      [api_type |-> "geckoterminal", is_enabled |-> TRUE, api_key_encrypted |-> "null"],
      [api_type |-> "birdeye", is_enabled |-> TRUE, api_key_encrypted |-> "key"]>>

TradeConfig == [api_type |-> "trade_execution", is_enabled |-> TRUE, api_key_encrypted |-> "key"]

\* the enabled rows of api_configurations a request may find
MonitorConfigLists == {<<>>, PriceConfigs, <<TradeConfig>> \o PriceConfigs}

\* request bodies: positionIds (empty: not given) and executeExits
Bodies == [positionIds : {{}, {2, 3, 5}}, executeExits : BOOLEAN]

SellReplies(fresh) ==
    {[kind |-> "http_error", text |-> "insufficient liquidity", transactionId |-> "", txId |-> ""],
     [kind |-> "ok", text |-> "", transactionId |-> fresh, txId |-> ""]}

NoResponse == [status |-> 0, body |-> "none"]

NoSummary ==
    [total |-> -1, holding |-> -1, takeProfitTriggered |-> -1, stopLossTriggered |-> -1,
     executed |-> -1]

\* the JSON body of a response: its top-level keys and its summary
NoPayload == [keys |-> {}, summary |-> NoSummary]

NoCur == [price |-> Null, reason |-> "null", profitLossPercent |-> Null,
          currentValue |-> Null, profitLossValue |-> Null,
          success |-> FALSE, txId |-> Undefined]

\* quoted, fetched and written are history: quoted[k] says whether some source
\* quoted a price for the k-th position read, fetched[k] is the price quoted (-1:
\* none), written is the set of positions this invocation has sent an update for.
\* auth, work and readIds are history that outlives the handler's return: the
\* credential the request came with, the kinds of work the invocation did
\* ("configs": the api_configurations query, "positions": the positions query,
\* "price": a call to a price source, "sell": a call to the trade API, "write":
\* an update of the positions table) and the ids of the rows it read
IdleInv ==
    [pc |-> "idle", user |-> "none", executeExits |-> FALSE, positionIds |-> {},
     apiConfigs |-> <<>>, positions |-> <<>>, idx |-> 0, cur |-> NoCur,
     results |-> <<>>, positionUpdates |-> <<>>, bidx |-> 0, response |-> NoResponse,
     quoted |-> <<>>, fetched |-> <<>>, written |-> {},
     payload |-> NoPayload, auth |-> "none", work |-> {}, readIds |-> {}]

Init ==
    /\ store = [p \in PosIds |-> InitialPosition(p)]
    /\ inv = [i \in Invs |-> IdleInv]
    /\ sells = <<>>
    /\ fee = IdleFee
    /\ es = IdleEs
    /\ ev = IdleEv
    /\ fp = IdleFp
    /\ rpc = IdleRpc

\* .eq('user_id', user.id).eq('status', 'open') [.in('id', positionIds)]
RECURSIVE SelectFrom(_, _, _, _)
SelectFrom(table, p, user, positionIds) ==
    IF p > NumPositions THEN <<>>
    ELSE (IF /\ table[p].user_id = user
             /\ table[p].status = "open"
             /\ (positionIds # {} => p \in positionIds)
          THEN <<table[p]>> ELSE <<>>)
         \o SelectFrom(table, p + 1, user, positionIds)

OpenPositionsQuery_IdsOverrideOwner(table, user, positionIds) ==
    SelectSeq([p \in PosIds |-> table[p]],
              LAMBDA row : /\ row.status = "open"
                           /\ IF positionIds # {} THEN row.id \in positionIds
                              ELSE row.user_id = user)

OpenPositionsQuery_AnyStatus(table, user, positionIds) ==
    SelectSeq([p \in PosIds |-> table[p]],
              LAMBDA r : r.user_id = user /\ (positionIds # {} => r.id \in positionIds))

OpenPositionsQuery(table, user, positionIds) == SelectFrom(table, 1, user, positionIds)

\* apiConfigs.find(c => c.api_type === 'trade_execution')
FindTradeConfig(apiConfigs) ==
    IF \E j \in DOMAIN apiConfigs : apiConfigs[j].api_type = "trade_execution"
    THEN apiConfigs[CHOOSE j \in DOMAIN apiConfigs :
                        /\ apiConfigs[j].api_type = "trade_execution"
                        /\ \A m \in 1..(j - 1) : apiConfigs[m].api_type # "trade_execution"]
    ELSE NoConfig

ShouldExecute_WithoutRequest(executeExits, tradeExecutionConfig) ==
    tradeExecutionConfig # NoConfig

\* line 307: if (executeExits && tradeExecutionConfig)
ShouldExecute(executeExits, tradeExecutionConfig) ==
    executeExits /\ tradeExecutionConfig # NoConfig

\* the row after supabase.from('positions').update(fields).eq('id', id)
ApplyUpdate(row, fields) ==
    [f \in DOMAIN row |-> IF f \in DOMAIN fields THEN fields[f] ELSE row[f]]

PriceFields_PriceAndPercentOnly(price, currentValue, profitLossPercent, profitLossValue) ==
    [current_price |-> price, profit_loss_percent |-> profitLossPercent]

\* lines 292-297 and 323-326: the four price fields of an update
PriceFields(price, currentValue, profitLossPercent, profitLossValue) ==
    [current_price |-> price, current_value |-> currentValue,
     profit_loss_percent |-> profitLossPercent, profit_loss_value |-> profitLossValue]

Executed_WhenAttempted(sellResult) == sellResult.calls > 0

Executed_Always(sellResult) == TRUE

\* lines 309, 313: executed = sellResult.success; if (executed)
Executed(sellResult) == sellResult.success

\* lines 317-327: the fields of the close update
CloseFields_WithAmount(c) ==
    [status |-> "closed", exit_reason |-> c.reason, exit_price |-> c.price,
     exit_tx_id |-> c.txId, amount |-> Fin(0)]
    @@ PriceFields(c.price, c.currentValue, c.profitLossPercent, c.profitLossValue)

CloseFields(c) ==
    [status |-> "closed", exit_reason |-> c.reason, exit_price |-> c.price,
     exit_tx_id |-> c.txId]
    @@ PriceFields(c.price, c.currentValue, c.profitLossPercent, c.profitLossValue)

ResultRecord_DropsError(position, action, currentPrice, profitLossPercent, executed, txId, error) ==
    [positionId |-> position.id, action |-> action, currentPrice |-> currentPrice,
     profitLossPercent |-> profitLossPercent, executed |-> executed,
     txId |-> txId, error |-> Undefined]

\* lines 270-278, 332-341, 343-350: a record of the result list
ResultRecord(position, action, currentPrice, profitLossPercent, executed, txId, error) ==
    [positionId |-> position.id, action |-> action, currentPrice |-> currentPrice,
     profitLossPercent |-> profitLossPercent, executed |-> executed,
     txId |-> txId, error |-> error]

Advance_BreakOnError(r) ==
    [r EXCEPT !.idx = @ + 1,
              !.cur = NoCur,
              !.pc = IF r.idx + 1 > Len(r.positions)
                        \/ r.results[Len(r.results)].error # Undefined
                     THEN "batch" ELSE "loop",
              !.bidx = 1]

\* the loop moves to the next position, or to the second pass after the last
Advance(r) ==
    [r EXCEPT !.idx = @ + 1,
              !.cur = NoCur,
              !.pc = IF r.idx + 1 > Len(r.positions) THEN "batch" ELSE "loop",
              !.bidx = 1]

Summary_HoldingWithoutErrors(positions, results) ==
    [total |-> Len(positions),
     holding |-> Len(SelectSeq(results, LAMBDA x : x.action = "hold" /\ x.error = Undefined)),
     takeProfitTriggered |-> Len(SelectSeq(results, LAMBDA x : x.action = "take_profit")),
     stopLossTriggered |-> Len(SelectSeq(results, LAMBDA x : x.action = "stop_loss")),
     executed |-> Len(SelectSeq(results, LAMBDA x : x.executed))]

\* lines 360, 367-373
Summary(positions, results) ==
    [total |-> Len(positions),
     holding |-> Len(SelectSeq(results, LAMBDA x : x.action = "hold")),
     takeProfitTriggered |-> Len(SelectSeq(results, LAMBDA x : x.action = "take_profit")),
     stopLossTriggered |-> Len(SelectSeq(results, LAMBDA x : x.action = "stop_loss")),
     executed |-> Len(SelectSeq(results, LAMBDA x : x.executed))]

\* the body of each response the handler builds (lines 195, 210, 227, 251-255,
\* 365-375, 382)
ResponsePayload(r, body) ==
    IF body = "report"
    THEN [keys |-> {"results", "summary", "timestamp"},
          summary |-> Summary(r.positions, r.results)]
    ELSE IF body = "No open positions to monitor"
    THEN [keys |-> {"results", "message", "timestamp"}, summary |-> NoSummary]
    ELSE [keys |-> {"error"}, summary |-> NoSummary]

Reply_ErrorStatusOnItemFailure(r, status, body) ==
    [IdleInv EXCEPT !.pc = "done", !.user = r.user,
                    !.results = IF body = "report" THEN r.results ELSE <<>>,
                    !.response =
                        [status |-> IF /\ body = "report"
                                       /\ \E k \in DOMAIN r.results :
                                             r.results[k].error # Undefined
                                    THEN 500 ELSE status,
                         body |-> body],
                    !.payload = ResponsePayload(r, body),
                    !.auth = r.auth, !.work = r.work, !.readIds = r.readIds]

\* the handler returns: its locals are gone, the response stays (results is the
\* result list of a report)
Reply(r, status, body) ==
    [IdleInv EXCEPT !.pc = "done", !.user = r.user,
                    !.results = IF body = "report" THEN r.results ELSE <<>>,
                    !.response = [status |-> status, body |-> body],
                    !.payload = ResponsePayload(r, body),
                    !.auth = r.auth, !.work = r.work, !.readIds = r.readIds]

GetUser_AnyToken(auth) == Caller

\* lines 206-209: supabase.auth.getUser(token); "none": no user, or an error
GetUser(auth) == IF auth = "valid" THEN Caller ELSE "none"

\* lines 188-230: the Authorization header, the token, the body and the enabled
\* API configurations; none of it reads or writes the positions table
Request(i) ==
    /\ inv[i].pc = "idle"
    /\ \E auth \in {"missing", "invalid", "valid"}, body \in Bodies,
          configs \in MonitorConfigLists :
          inv' = [inv EXCEPT ![i] =
                    IF auth = "missing"
                    THEN Reply([@ EXCEPT !.auth = auth], 401, "Unauthorized")
                    ELSE IF GetUser(auth) = "none"
                    THEN Reply([@ EXCEPT !.auth = auth], 401, "Invalid token")
                    ELSE IF Len(configs) = 0
                         THEN Reply([@ EXCEPT !.user = GetUser(auth), !.auth = auth,
                                              !.work = {"configs"}],
                                    400, "No API configurations found")
                    ELSE [@ EXCEPT !.pc = "read", !.user = GetUser(auth),
                                   !.auth = auth, !.work = {"configs"},
                                   !.executeExits = body.executeExits,
                                   !.positionIds = body.positionIds,
                                   !.apiConfigs = configs]]
    /\ UNCHANGED <<store, sells, ev, fp, rpc, fee, es>>

\* lines 232-262: the open-positions query and its three outcomes
ReadPositions(i) ==
    /\ inv[i].pc = "read"
    /\ \E positionsError \in BOOLEAN :
          LET positions == OpenPositionsQuery(store, inv[i].user, inv[i].positionIds)
              asked     == [inv[i] EXCEPT !.work = @ \cup {"positions"}]
          IN  inv' = [inv EXCEPT ![i] =
                        IF positionsError THEN Reply(asked, 500, "Failed to fetch positions")
                        ELSE IF Len(positions) = 0
                             THEN Reply(asked, 200, "No open positions to monitor")
                        ELSE [asked EXCEPT
                                !.pc = "loop", !.positions = positions, !.idx = 1,
                                !.readIds = {positions[k].id : k \in DOMAIN positions}]]
    /\ UNCHANGED <<store, sells, ev, fp, rpc, fee, es>>

\* lines 265-307 and 332-351: one position is priced and evaluated; its price
\* update is staged; with a sell due the handler awaits executeSell
ProcessPosition(i) ==
    /\ inv[i].pc = "loop"
    /\ \E replies \in MonitorReplies :
          LET position == inv[i].positions[inv[i].idx]
              f        == fetchCurrentPrice(position.chain, inv[i].apiConfigs, replies)
              r        == [inv[i] EXCEPT !.quoted = Append(@, AnyQuote(replies)),
                                         !.fetched = Append(@, QuotedPrice(replies)),
                                         !.work = @ \cup (IF f.calls # <<>> THEN {"price"}
                                                          ELSE {})]
              e        == checkExitConditions(position, f.price)
              currentValue    == FMul(position.amount, f.price)
              profitLossValue == FSub(currentValue, position.entry_value)
              staged   == [r EXCEPT !.positionUpdates =
                              Append(@, [id |-> position.id,
                                         updates |-> PriceFields(f.price, currentValue,
                                                                 e.profitLossPercent,
                                                                 profitLossValue)])]
          IN  inv' = [inv EXCEPT ![i] =
                IF f.raised THEN Reply(r, 500, "Internal server error")
                ELSE IF f.price = Null
                THEN Advance([r EXCEPT !.results =
                        Append(@, ResultRecord(position, "hold", position.current_price,
                                               position.profit_loss_percent, FALSE,
                                               Undefined, "Could not fetch current price"))])
                ELSE IF e.shouldExit /\ e.reason # "null"
                THEN IF ShouldExecute(r.executeExits, FindTradeConfig(r.apiConfigs))
                     THEN [staged EXCEPT !.pc = "sell",
                              !.cur = [NoCur EXCEPT !.price = f.price,
                                          !.reason = e.reason,
                                          !.profitLossPercent = e.profitLossPercent,
                                          !.currentValue = currentValue,
                                          !.profitLossValue = profitLossValue]]
                     ELSE Advance([staged EXCEPT !.results =
                             Append(@, ResultRecord(position, e.reason, f.price,
                                                    e.profitLossPercent, FALSE,
                                                    Undefined, Undefined))])
                ELSE Advance([staged EXCEPT !.results =
                        Append(@, ResultRecord(position, "hold", f.price,
                                               e.profitLossPercent, FALSE,
                                               Undefined, Undefined))])]
    /\ UNCHANGED <<store, sells, ev, fp, rpc, fee, es>>

\* lines 308-313: the trade API answers the sell request
Sell(i) ==
    /\ inv[i].pc = "sell"
    /\ \E reply \in SellReplies("tx" \o ToString(Len(sells) + 1)) :
          LET r        == inv[i]
              position == r.positions[r.idx]
              sold     == executeSell(position, r.cur.reason,
                                      FindTradeConfig(r.apiConfigs), reply)
          IN  /\ sells' = Append(sells, [inv |-> i, positionId |-> position.id,
                                         reason |-> r.cur.reason,
                                         amount |-> position.amount,
                                         calls |-> sold.calls,
                                         success |-> sold.success])
              /\ inv' = [inv EXCEPT ![i] =
                    IF Executed(sold)
                    THEN [r EXCEPT !.pc = "close", !.cur.success = sold.success,
                                   !.cur.txId = sold.txId, !.work = @ \cup {"sell"}]
                    ELSE Advance([r EXCEPT !.work = @ \cup {"sell"}, !.results =
                            Append(@, ResultRecord(position, r.cur.reason, r.cur.price,
                                                   r.cur.profitLossPercent, FALSE,
                                                   sold.txId, sold.error))])]
    /\ UNCHANGED <<store, ev, fp, rpc, fee, es>>

\* lines 315-341: the close update, keyed by id alone; its outcome is not looked
\* at, so a failed update leaves the row as it was and the handler goes on
CloseWrite(i) ==
    /\ inv[i].pc = "close"
    /\ \E written \in BOOLEAN :
          LET r        == inv[i]
              position == r.positions[r.idx]
          IN  /\ store' = IF written
                          THEN [store EXCEPT ![position.id] = ApplyUpdate(@, CloseFields(r.cur))]
                          ELSE store
              /\ inv' = [inv EXCEPT ![i] =
                    Advance([r EXCEPT !.written = @ \cup {position.id},
                                      !.work = @ \cup {"write"},
                                      !.results =
                        Append(@, ResultRecord(position, r.cur.reason, r.cur.price,
                                               r.cur.profitLossPercent, TRUE,
                                               r.cur.txId, Undefined))])]
    /\ UNCHANGED <<sells, ev, fp, rpc, fee, es>>

\* lines 355-357: one staged price update of the second pass
BatchWrite(i) ==
    /\ inv[i].pc = "batch"
    /\ inv[i].bidx <= Len(inv[i].positionUpdates)
    /\ \E written \in BOOLEAN :
          LET u == inv[i].positionUpdates[inv[i].bidx]
          IN  /\ store' = IF written
                          THEN [store EXCEPT ![u.id] = ApplyUpdate(@, u.updates)]
                          ELSE store
              /\ inv' = [inv EXCEPT ![i].bidx = @ + 1, ![i].written = @ \cup {u.id},
                                     ![i].work = @ \cup {"write"}]
    /\ UNCHANGED <<sells, ev, fp, rpc, fee, es>>

\* lines 359-377: the report
Respond(i) ==
    /\ inv[i].pc = "batch"
    /\ inv[i].bidx > Len(inv[i].positionUpdates)
    /\ inv' = [inv EXCEPT ![i] = Reply(@, 200, "report")]
    /\ UNCHANGED <<store, sells, ev, fp, rpc, fee, es>>

Next ==
    \E i \in Invs :
        \/ Request(i)
        \/ ReadPositions(i)
        \/ ProcessPosition(i)
        \/ Sell(i)
        \/ CloseWrite(i)
        \/ BatchWrite(i)
        \/ Respond(i)

Spec == Init /\ [][Next]_vars

(***************************************************************************)
(* SpecSeq: the reference deployment, in which a user's positions are      *)
(* handled by one invocation at a time: a request is taken up only when no *)
(* other invocation is running, so the two cycles follow one another       *)
(***************************************************************************)
NoneRunning == \A j \in Invs : inv[j].pc \in {"idle", "done"}

SeqNext ==
    \E i \in Invs :
        \/ NoneRunning /\ Request(i)
        \/ ReadPositions(i)
        \/ ProcessPosition(i)
        \/ Sell(i)
        \/ CloseWrite(i)
        \/ BatchWrite(i)
        \/ Respond(i)

SpecSeq == Init /\ [][SeqNext]_vars

(***************************************************************************)
(* Claims about the Position Monitor                                       *)
(***************************************************************************)
SuccessfulSells(p) == {k \in DOMAIN sells : sells[k].positionId = p /\ sells[k].success}

\* C2: no position is double-sold: over any sequence and interleaving of monitor
\* invocations, the sell call succeeds at most once per position.
C2_NoDoubleSell == \A p \in PosIds : Cardinality(SuccessfulSells(p)) <= 1

InLoop(i) == inv[i].pc \in {"loop", "sell", "close"}

Running(i) == inv[i].pc \in {"loop", "sell", "close", "batch"}

\* the row of the positions table that invocation i is processing
CurrentPosition(i) == inv[i].positions[inv[i].idx]

ExitFields(row) ==
    [exit_reason |-> row.exit_reason, exit_price |-> row.exit_price,
     exit_tx_id |-> row.exit_tx_id]

\* what must be true of an invocation that is about to send the close update
C3_CloseConditions(i) ==
    LET r == inv[i]
        position == CurrentPosition(i)
    IN  /\ r.cur.price # Null
        /\ r.quoted[r.idx]
        /\ r.cur.reason \in {"take_profit", "stop_loss"}
        /\ r.cur.reason = checkExitConditions(position, r.cur.price).reason
        /\ r.executeExits
        /\ \E j \in DOMAIN r.apiConfigs :
              r.apiConfigs[j].api_type = "trade_execution" /\ r.apiConfigs[j].is_enabled
        /\ \E k \in DOMAIN sells :
              /\ sells[k].inv = i
              /\ sells[k].positionId = position.id
              /\ sells[k].success
              /\ \A m \in (k + 1)..Len(sells) : sells[m].inv # i
        /\ r.cur.success

\* C3: the monitor writes status = closed only when, in that cycle, a price was
\* fetched, the evaluator returned take_profit or stop_loss, execution was
\* requested, an enabled trade_execution configuration exists and executeSell
\* returned success; the same write sets exit_reason, exit_price and exit_tx_id
\* to the triggering reason, the fetched price and the returned transaction id.
C3_ClosedOnlyAfterExecutedSell ==
    /\ [](\A i \in Invs : inv[i].pc = "close" => C3_CloseConditions(i))
    /\ [][\A p \in PosIds :
            (store'[p].status = "closed"
             /\ (store[p].status # "closed" \/ ExitFields(store'[p]) # ExitFields(store[p])))
            => \E i \in Invs :
                  /\ inv[i].pc = "close"
                  /\ CurrentPosition(i).id = p
                  /\ store'[p].exit_reason = inv[i].cur.reason
                  /\ store'[p].exit_price = inv[i].cur.price
                  /\ store'[p].exit_tx_id = inv[i].cur.txId
                  /\ inv[i].cur.txId \notin {Undefined, "", "null"}]_vars

\* C3 witness: position 1 was closed by a take-profit at 150 with the first
\* transaction id the trade API handed out.
C3_Witness ==
    /\ store[1].status = "closed"
    /\ store[1].exit_reason = "take_profit"
    /\ store[1].exit_price = Fin(150)
    /\ store[1].exit_tx_id = "tx1"
    /\ Len(sells) = 1

\* C4: the only status change the monitor performs is open -> closed; a closed
\* position is never selected for processing again and never has its status
\* changed by a later cycle.
C4_StatusMonotone ==
    [][/\ \A p \in PosIds :
            store'[p].status # store[p].status
                => (store[p].status = "open" /\ store'[p].status = "closed")
       /\ \A i \in Invs :
            (inv[i].pc = "read" /\ inv'[i].pc = "loop")
                => \A k \in DOMAIN inv'[i].positions :
                      /\ store[inv'[i].positions[k].id].status = "open"
                      /\ inv'[i].positions[k].status = "open"]_vars

\* C4 witness: position 1 is closed and an invocation that asked for all of the
\* caller's positions read only position 2.
C4_Witness ==
    /\ store[1].status = "closed"
    /\ \E i \in Invs :
          /\ inv[i].pc = "loop"
          /\ inv[i].positionIds = {}
          /\ Len(inv[i].positions) = 1
          /\ inv[i].positions[1].id = 2

\* C5: once a position has been closed by an executed sell its exit_reason,
\* exit_price and exit_tx_id are non-null and no later monitor write changes
\* them; a position that was not closed keeps all three null.
C5_ExitFieldsImmutable ==
    [][\A p \in PosIds :
          /\ store[p].status = "closed"
                => /\ store[p].exit_reason # "null"
                   /\ store[p].exit_price # Null
                   /\ store[p].exit_tx_id # "null"
                   /\ ExitFields(store'[p]) = ExitFields(store[p])
          /\ store[p].status # "closed"
                => ExitFields(store[p]) = [exit_reason |-> "null", exit_price |-> Null,
                                           exit_tx_id |-> "null"]]_vars

\* C6: when every price source fails for a position's token, the position's
\* result is action = hold, executed = false, error = "Could not fetch current
\* price", no sell is attempted and the invocation writes none of the position's
\* stored fields in that cycle.
C6_NoPriceNoWrite ==
    \A i \in Invs :
        Running(i) =>
            \A k \in DOMAIN inv[i].quoted :
                (~inv[i].quoted[k] /\ k <= Len(inv[i].results)) =>
                    LET id == inv[i].positions[k].id
                        res == inv[i].results[k]
                    IN  /\ res.positionId = id
                        /\ res.action = "hold"
                        /\ ~res.executed
                        /\ res.error = "Could not fetch current price"
                        /\ res.currentPrice = inv[i].positions[k].current_price
                        /\ \A m \in DOMAIN sells :
                              ~(sells[m].inv = i /\ sells[m].positionId = id)
                        /\ \A m \in DOMAIN inv[i].positionUpdates :
                              inv[i].positionUpdates[m].id # id
                        /\ id \notin inv[i].written

\* C6 witness: an invocation has finished its second pass over two positions;
\* no source quoted a price for the first, the second was priced and written.
C6_Witness ==
    \E i \in Invs :
        /\ inv[i].pc = "batch"
        /\ inv[i].bidx > Len(inv[i].positionUpdates)
        /\ inv[i].quoted = <<FALSE, TRUE>>
        /\ inv[i].results[1].error = "Could not fetch current price"
        /\ inv[i].written = {2}

\* C7: batch independence: whatever price fetches and sells fail, the result
\* list has exactly one record per position read, in read order, and a failure
\* on one position never keeps a later one from being priced, evaluated and
\* sold when due.
C7_BatchIndependence ==
    /\ [](\A i \in Invs :
            /\ InLoop(i) =>
                  /\ inv[i].idx \in 1..Len(inv[i].positions)
                  /\ Len(inv[i].results) = inv[i].idx - 1
            /\ inv[i].pc = "batch" => Len(inv[i].results) = Len(inv[i].positions)
            /\ Running(i) =>
                  \A k \in DOMAIN inv[i].results :
                      inv[i].results[k].positionId = inv[i].positions[k].id)
    /\ [][\A i \in Invs :
            /\ InLoop(i) => Running(i)'
            /\ (inv[i].pc = "batch" /\ inv'[i].pc = "done")
                  => /\ inv'[i].response = [status |-> 200, body |-> "report"]
                     /\ inv'[i].results = inv[i].results]_vars

\* C7 witness: in one batch the first position could not be priced or its sell
\* failed, and the second position was sold all the same.
C7_Witness ==
    \E i \in Invs :
        /\ inv[i].pc = "done"
        /\ Len(inv[i].results) = 2
        /\ inv[i].results[1].error # Undefined
        /\ inv[i].results[2].executed

\* z = x * y, in integer arithmetic on the numerators and denominators
IsProduct(z, x, y) ==
    /\ z.k = "fin" /\ x.k = "fin" /\ y.k = "fin"
    /\ z.n * x.d * y.d = x.n * y.n * z.d

\* z = x - y
IsDifference(z, x, y) ==
    /\ z.k = "fin" /\ x.k = "fin" /\ y.k = "fin"
    /\ z.n * x.d * y.d = (x.n * y.d - y.n * x.d) * z.d

\* pl = (price - entry) / entry * 100, for an entry price other than 0
IsPercentOf(pl, price, entry) ==
    /\ pl.k = "fin" /\ price.k = "fin" /\ entry.k = "fin" /\ entry.n # 0
    /\ pl.n * price.d * entry.n = (price.n * entry.d - entry.n * price.d) * 100 * pl.d

\* the position of the rows read by invocation i that has the id
PositionRead(i, id) ==
    inv[i].positions[CHOOSE k \in DOMAIN inv[i].positions : inv[i].positions[k].id = id]

FetchedFor(i, id) ==
    inv[i].fetched[CHOOSE k \in DOMAIN inv[i].positions : inv[i].positions[k].id = id]

\* C17: after any monitor write of price data the stored fields satisfy
\* current_value = amount * current_price and profit_loss_value = current_value
\* - entry_value; current_price, current_value, profit_loss_percent and
\* profit_loss_value are always written together in one update computed from
\* one fetched price, never one derived field without the others.
C17_ValueFieldsConsistent ==
    /\ \A i \in Invs :
          Running(i) =>
              /\ \A k \in DOMAIN inv[i].positionUpdates :
                    LET u   == inv[i].positionUpdates[k]
                        pos == PositionRead(i, u.id)
                    IN  /\ DOMAIN u.updates = {"current_price", "current_value",
                                                "profit_loss_percent", "profit_loss_value"}
                        /\ u.updates.current_price = Fin(FetchedFor(i, u.id))
                        /\ IsProduct(u.updates.current_value, pos.amount,
                                     u.updates.current_price)
                        /\ IsDifference(u.updates.profit_loss_value,
                                        u.updates.current_value, pos.entry_value)
              /\ inv[i].pc = "close" =>
                    LET c   == inv[i].cur
                        pos == CurrentPosition(i)
                    IN  /\ c.price = Fin(inv[i].fetched[inv[i].idx])
                        /\ IsProduct(c.currentValue, pos.amount, c.price)
                        /\ IsDifference(c.profitLossValue, c.currentValue, pos.entry_value)
    /\ \A p \in PosIds :
          /\ IsProduct(store[p].current_value, store[p].amount, store[p].current_price)
          /\ IsDifference(store[p].profit_loss_value, store[p].current_value,
                          store[p].entry_value)

\* C17 witness: position 1 (amount 2, entry value 200) was written with the
\* price 80 by one cycle and then with 150 by the next: value 300, P&L 100.
C17_Witness ==
    /\ store[1].status = "open"
    /\ store[1].current_price = Fin(150)
    /\ store[1].current_value = Fin(300)
    /\ store[1].profit_loss_value = Fin(100)
    /\ \E i, j \in Invs :
          /\ i # j
          /\ inv[i].pc = "done" /\ inv[i].response.body = "report"
          /\ \E k \in DOMAIN inv[i].results :
                /\ inv[i].results[k].positionId = 1
                /\ inv[i].results[k].currentPrice = Fin(80)
          /\ inv[j].pc = "batch" /\ 1 \in inv[j].written

FailedSells(i, id) ==
    {m \in DOMAIN sells : sells[m].inv = i /\ sells[m].positionId = id /\ ~sells[m].success}

SellsOf(i) == {k \in DOMAIN sells : sells[k].inv = i}

\* C21: a request that comes without an Authorization header, or with a token
\* that resolves to no user, is over as soon as it is taken up, with status 401
\* and no user, and has done no monitoring work: no query of the API
\* configurations or of the positions, no call of a price source or of the trade
\* API, no update of a position.
C21_UnauthenticatedRejectedFirst ==
    \A i \in Invs :
        inv[i].auth \in {"missing", "invalid"} =>
            /\ inv[i].pc = "done"
            /\ inv[i].response.status = 401
            /\ inv[i].payload.keys = {"error"}
            /\ inv[i].user = "none"
            /\ inv[i].work = {}
            /\ inv[i].readIds = {}
            /\ SellsOf(i) = {}

\* one request was rejected for its missing header, the other for its token, and
\* the table is as it was
C21_Witness ==
    /\ inv[1].auth = "missing"
    /\ inv[1].response = [status |-> 401, body |-> "Unauthorized"]
    /\ inv[2].auth = "invalid"
    /\ inv[2].response = [status |-> 401, body |-> "Invalid token"]
    /\ store = [p \in PosIds |-> InitialPosition(p)]


\* an invocation that has returned its response
Answered(i) == inv[i].pc = "done"

\* the results of a report that carry a per-item error
ItemErrors(i) == {k \in DOMAIN inv[i].results : inv[i].results[k].error # Undefined}

\* C22 (as stated): an authenticated caller gets a non-2xx response only for a
\* top-level problem of the request (here: no API configuration to work with,
\* status 400); every other outcome is inside a 200 response.
C22_AuthenticatedGets200 ==
    \A i \in Invs :
        Answered(i) /\ inv[i].auth = "valid" => inv[i].response.status \in {200, 400}

\* C22 (amended): the non-2xx responses are 401 for exactly the callers without
\* a valid credential, 400 for an authenticated caller with no enabled API
\* configuration, given before any position is read, and 500 when the positions
\* query or another step of the handler fails as a whole; once the positions
\* are read, positions that could not be priced or sold are reported per item
\* and the response is a 200.
C22_NonOkOnlyForWholeRequestFailures ==
    \A i \in Invs :
        Answered(i) =>
            /\ inv[i].response.status \in {200, 400, 401, 500}
            /\ inv[i].response.status = 401 <=> inv[i].auth \in {"missing", "invalid"}
            /\ inv[i].response.status = 400 =>
                  /\ inv[i].response.body = "No API configurations found"
                  /\ inv[i].work = {"configs"}
            /\ inv[i].response.status = 500 =>
                  /\ inv[i].response.body
                        \in {"Failed to fetch positions", "Internal server error"}
                  /\ inv[i].results = <<>>
                  /\ inv[i].payload.keys = {"error"}
            /\ inv[i].response.body = "report" => inv[i].response.status = 200
            /\ ItemErrors(i) # {} => inv[i].response.status = 200

\* a 200 report in which one position could not be priced and another could not
\* be sold
C22_Witness ==
    \E i \in Invs :
        /\ Answered(i)
        /\ inv[i].response.status = 200
        /\ \E k, l \in DOMAIN inv[i].results :
              /\ inv[i].results[k].error = "Could not fetch current price"
              /\ inv[i].results[l].error = "Trade API error: insufficient liquidity"


\* C23: every 200 response carries the result list, the aggregate summary and
\* the timestamp, whatever the number of positions read, zero included.
C23_OkResponseHasThreeOutputs ==
    \A i \in Invs :
        Answered(i) /\ inv[i].response.status = 200 =>
            /\ {"results", "summary", "timestamp"} \subseteq inv[i].payload.keys
            /\ inv[i].payload.summary # NoSummary


\* the results of a response with the given action
WithAction(i, action) == {k \in DOMAIN inv[i].results : inv[i].results[k].action = action}

\* C24: in a response that has a summary, total is the number of positions
\* read; holding, takeProfitTriggered and stopLossTriggered count the results of
\* each action and add up to total; executed counts the results with executed
\* set and is at most the number of triggered exits; a position whose price
\* could not be fetched is among the holding ones.
C24_SummaryCounts ==
    \A i \in Invs :
        inv[i].payload.summary # NoSummary =>
            LET s        == inv[i].payload.summary
                executed == {k \in DOMAIN inv[i].results : inv[i].results[k].executed}
                unpriced == {k \in DOMAIN inv[i].results :
                                inv[i].results[k].error = "Could not fetch current price"}
            IN  /\ s.total = Cardinality(inv[i].readIds)
                /\ s.total = Len(inv[i].results)
                /\ s.holding = Cardinality(WithAction(i, "hold"))
                /\ s.takeProfitTriggered = Cardinality(WithAction(i, "take_profit"))
                /\ s.stopLossTriggered = Cardinality(WithAction(i, "stop_loss"))
                /\ s.holding + s.takeProfitTriggered + s.stopLossTriggered = s.total
                /\ s.executed = Cardinality(executed)
                /\ s.executed <= s.takeProfitTriggered + s.stopLossTriggered
                /\ unpriced \subseteq WithAction(i, "hold")

\* a report on two positions: one could not be priced, the other was sold at
\* its take-profit
C24_Witness ==
    \E i \in Invs :
        /\ inv[i].payload.summary =
              [total |-> 2, holding |-> 1, takeProfitTriggered |-> 1,
               stopLossTriggered |-> 0, executed |-> 1]
        /\ \E k \in DOMAIN inv[i].results :
              inv[i].results[k].error = "Could not fetch current price"


\* the four price fields of a row
StoredPriceFields(row) ==
    [current_price |-> row.current_price, current_value |-> row.current_value,
     profit_loss_percent |-> row.profit_loss_percent,
     profit_loss_value |-> row.profit_loss_value]

\* the invocation has run its second pass to the end and is about to respond
CycleComplete(i) == inv[i].pc = "batch" /\ inv[i].bidx > Len(inv[i].positionUpdates)

\* the result an answered invocation reported for a position: a hold at the price
HeldAt(j, p, q) ==
    /\ Answered(j) /\ inv[j].response.body = "report"
    /\ \E k \in DOMAIN inv[j].results :
          /\ inv[j].results[k].positionId = p
          /\ inv[j].results[k].action = "hold"
          /\ inv[j].results[k].error = Undefined
          /\ inv[j].results[k].currentPrice = Fin(q)

\* the invocation has read the position and fetched the price for it
PricedAt(i, p, q) ==
    /\ Running(i)
    /\ \E k \in DOMAIN inv[i].fetched :
          inv[i].positions[k].id = p /\ inv[i].fetched[k] = q

\* C25: when a cycle has reported hold for an open position at a price and the
\* next cycle fetches the same price for it, the second cycle holds it too,
\* leaves its status open and leaves its stored price, value and P&L fields as
\* they were after the first cycle.
C25_SecondRunChangesNothing ==
    [][\A i, j \in Invs, p \in PosIds, q \in MonitorPrices :
          (i # j /\ HeldAt(j, p, q) /\ PricedAt(i, p, q)')
            => /\ StoredPriceFields(store'[p]) = StoredPriceFields(store[p])
               /\ store'[p].status = "open"
               /\ \A k \in DOMAIN inv'[i].results :
                     inv'[i].results[k].positionId = p
                        => inv'[i].results[k].action = "hold"]_vars

\* C27: at the end of a cycle every position the cycle read and got a price for
\* has stored current_price, current_value, profit_loss_percent and
\* profit_loss_value equal to the values computed from that price.
C27_PricedPositionsFresh ==
    \A i \in Invs :
        CycleComplete(i) =>
            \A k \in DOMAIN inv[i].positions :
                inv[i].fetched[k] >= 0 =>
                    LET pos   == inv[i].positions[k]
                        price == Fin(inv[i].fetched[k])
                        row   == store[pos.id]
                    IN  /\ row.current_price = price
                        /\ IsProduct(row.current_value, pos.amount, price)
                        /\ IsPercentOf(row.profit_loss_percent, price, pos.entry_price)
                        /\ IsDifference(row.profit_loss_value, row.current_value,
                                        pos.entry_value)


\* the rows the authenticated caller of invocation i owns
OwnedBy(i) == {p \in PosIds : store[p].user_id = inv[i].user}

\* C26: the rows an invocation holds, prices, sells and writes are rows of the
\* authenticated caller that were open when read and, with positionIds given,
\* are named in it; a row of another user, or one that was not open at the
\* start, is never read, sold or changed, also when positionIds names it.
C26_OnlyOwnOpenPositions ==
    /\ \A i \in Invs :
          /\ \A k \in DOMAIN inv[i].positions :
                LET row == inv[i].positions[k]
                IN  /\ row.user_id = inv[i].user
                    /\ inv[i].auth = "valid"
                    /\ row.status = "open"
                    /\ inv[i].positionIds # {} => row.id \in inv[i].positionIds
                    /\ row.id \in inv[i].readIds
          /\ inv[i].readIds \subseteq OwnedBy(i)
          /\ inv[i].positionIds # {} => inv[i].readIds \subseteq inv[i].positionIds
          /\ inv[i].written \subseteq inv[i].readIds
          /\ \A k \in DOMAIN inv[i].positionUpdates :
                inv[i].positionUpdates[k].id \in inv[i].readIds
          /\ \A k \in SellsOf(i) : sells[k].positionId \in inv[i].readIds
    /\ \A p \in PosIds :
          (InitialPosition(p).user_id # Caller \/ InitialPosition(p).status # "open")
              => store[p] = InitialPosition(p)

\* a request naming rows 2, 3 (another user's) and 5 (closed) has read row 2
\* alone, sold it and written it
C26_Witness ==
    \E i \in Invs :
        /\ inv[i].positionIds = {2, 3, 5}
        /\ inv[i].readIds = {2}
        /\ CycleComplete(i)
        /\ 2 \in inv[i].written
        /\ store[2].status = "closed"
        /\ store[3] = InitialPosition(3)
        /\ store[5] = InitialPosition(5)


\* the positions an invocation has sold with success
SoldBy(i) == {sells[k].positionId : k \in {l \in SellsOf(i) : sells[l].success}}

ExitTriggered(pos, q) ==
    LET entry == pos.entry_price.n
    IN  \/ (q - entry) * 100 >= pos.profit_take_percent.n * entry
        \/ (q - entry) * 100 <= -(pos.stop_loss_percent.n * entry)

\* the sell calls an invocation made for a position
SellCallsFor(i, id) == {k \in SellsOf(i) : sells[k].positionId = id}

\* C30: within a cycle the trade API is called for a position only if the price
\* fetched for it triggered an exit, the request had executeExits = true and
\* an enabled trade_execution configuration was found, and then once; for a
\* position evaluated without these no sell call is made, its result has
\* executed = false and its row stays open.
C30_SellOnlyWhenRequestedAndConfigured ==
    \A i \in Invs :
        Running(i) =>
            \A k \in DOMAIN inv[i].positions :
                LET pos   == inv[i].positions[k]
                    calls == SellCallsFor(i, pos.id)
                    due   == /\ k <= Len(inv[i].fetched)
                             /\ inv[i].fetched[k] >= 0
                             /\ ExitTriggered(pos, inv[i].fetched[k])
                             /\ inv[i].executeExits
                             /\ \E c \in DOMAIN inv[i].apiConfigs :
                                   /\ inv[i].apiConfigs[c].api_type = "trade_execution"
                                   /\ inv[i].apiConfigs[c].is_enabled
                IN  /\ calls # {} => due
                    /\ Cardinality(calls) <= 1
                    /\ (k <= Len(inv[i].results) /\ ~due) =>
                          /\ calls = {}
                          /\ ~inv[i].results[k].executed
                          /\ store[pos.id].status = "open"

\* one cycle sold position 1 on request; the next, asked without executeExits
\* though the trade configuration is there, reports the stop-loss of position 2
\* unexecuted, has called no sell and leaves the row open
C30_Witness ==
    \E i, j \in Invs :
        /\ i # j
        /\ \E k \in SellsOf(j) : sells[k].positionId = 1 /\ sells[k].success
        /\ CycleComplete(i)
        /\ ~inv[i].executeExits
        /\ FindTradeConfig(inv[i].apiConfigs) # NoConfig
        /\ SellsOf(i) = {}
        /\ \E k \in DOMAIN inv[i].results :
              /\ inv[i].results[k].positionId = 2
              /\ inv[i].results[k].action = "stop_loss"
              /\ ~inv[i].results[k].executed
        /\ store[2].status = "open"


\* C36: at the end of a cycle every position whose result reports executed =
\* true is stored as closed with its exit reason, exit price and exit
\* transaction id set, whatever became of the close update.
C36_ExecutedMeansStoredClosed ==
    \A i \in Invs :
        CycleComplete(i) =>
            \A k \in DOMAIN inv[i].results :
                inv[i].results[k].executed =>
                    LET row == store[inv[i].results[k].positionId]
                    IN  /\ row.status = "closed"
                        /\ row.exit_reason = inv[i].results[k].action
                        /\ row.exit_price # Null
                        /\ row.exit_tx_id # "null"


\* the fields of a row that identify the position and fix its entry and its
\* thresholds
FrameFields(row) ==
    [id |-> row.id, user_id |-> row.user_id, chain |-> row.chain,
     entry_price |-> row.entry_price, amount |-> row.amount,
     entry_value |-> row.entry_value,
     profit_take_percent |-> row.profit_take_percent,
     stop_loss_percent |-> row.stop_loss_percent]

PriceFieldNames ==
    {"current_price", "current_value", "profit_loss_percent", "profit_loss_value"}

ExitFieldNames == {"status", "exit_reason", "exit_price", "exit_tx_id", "closed_at"}

\* C37: the monitor leaves id, owner, chain, entry_price, amount, entry_value,
\* profit_take_percent and stop_loss_percent of every row as they were; a
\* staged update names price fields only, and status and the exit fields of a
\* row change only with an executed exit of the position.
C37_FrameFieldsUntouched ==
    /\ \A p \in PosIds :
          /\ FrameFields(store[p]) = FrameFields(InitialPosition(p))
          /\ (store[p].status # InitialPosition(p).status
                \/ ExitFields(store[p]) # ExitFields(InitialPosition(p)))
                => SuccessfulSells(p) # {}
    /\ \A i \in Invs :
          /\ \A k \in DOMAIN inv[i].positionUpdates :
                DOMAIN inv[i].positionUpdates[k].updates \subseteq PriceFieldNames
          /\ inv[i].pc = "close" =>
                DOMAIN CloseFields(inv[i].cur) \subseteq PriceFieldNames \cup ExitFieldNames

\* position 1 was sold and closed at 150 and position 2 repriced at 80; entry
\* price, amount and thresholds of both are as before
C37_Witness ==
    /\ store[1].status = "closed"
    /\ store[1].current_price = Fin(150)
    /\ store[1].exit_price = Fin(150)
    /\ store[2].status = "open"
    /\ store[2].current_price = Fin(80)
    /\ \A p \in {1, 2} : FrameFields(store[p]) = FrameFields(InitialPosition(p))

(***************************************************************************)
(* SpecSell: executeSell on its own                                        *)
(***************************************************************************)
SellBodies == {"", "insufficient liquidity"}

TradeApiReplies ==
    {[kind |-> "throw", text |-> t, transactionId |-> "", txId |-> ""] :
        t \in {"network unreachable", Undefined}}
    \cup {[kind |-> "http_error", text |-> t, transactionId |-> "", txId |-> ""] :
            t \in SellBodies}
    \cup {[kind |-> k, text |-> "", transactionId |-> "", txId |-> ""] :
            k \in {"bad_json", "null_json"}}
    \cup {[kind |-> "ok", text |-> "", transactionId |-> a, txId |-> b] :
            a \in {"", "sigA"}, b \in {"", "sigB"}}

SellInit ==
    /\ es \in [pc : {"call"},
               position : {InitialPosition(p) : p \in {1, 2}},
               reason : {"take_profit", "stop_loss"},
               tradeExecutionConfig :
                   {[TradeConfig EXCEPT !.api_key_encrypted = key] : key \in {"null", "key"}},
               reply : TradeApiReplies,
               out : {NoOut}]
    /\ ev = IdleEv
    /\ fp = IdleFp
    /\ rpc = IdleRpc
    /\ fee = IdleFee
    /\ store = <<>>
    /\ inv = <<>>
    /\ sells = <<>>

SellCall ==
    /\ es.pc = "call"
    /\ es' = [es EXCEPT !.pc = "returned",
                        !.out = executeSell(es.position, es.reason,
                                            es.tradeExecutionConfig, es.reply)]
    /\ UNCHANGED <<ev, fp, rpc, store, inv, sells, fee>>

SellNext == SellCall

SpecSell == SellInit /\ [][SellNext]_vars

(***************************************************************************)
(* Claims about the Trade Executor                                         *)
(***************************************************************************)
\* the trade API answered with a 2xx status
Is2xx(reply) == reply.kind \in {"ok", "bad_json", "null_json"}

\* C19: executeSell issues exactly one call to the trade-execution endpoint per
\* invocation (no retry) and never raises: a non-2xx response gives success =
\* false with the response body in the error; a 2xx response gives success =
\* true with txId taken from the response's transactionId field, else its txId
\* field, else the literal "pending"; a transport exception gives success =
\* false with an error message.
C19_OneCallTotalOutcome ==
    es.pc = "returned" =>
        /\ es.out.calls = 1
        /\ es.reply.kind = "http_error" =>
              /\ ~es.out.success
              /\ es.out.error = "Trade API error: " \o es.reply.text
        /\ Is2xx(es.reply) =>
              /\ es.out.success
              /\ es.out.txId = (IF es.reply.kind = "ok" /\ es.reply.transactionId # ""
                                THEN es.reply.transactionId
                                ELSE IF es.reply.kind = "ok" /\ es.reply.txId # ""
                                THEN es.reply.txId
                                ELSE "pending")
        /\ es.reply.kind = "throw" =>
              /\ ~es.out.success
              /\ es.out.error \notin {Undefined, ""}

(***************************************************************************)
(* Priority Fee Estimator (the usePriorityFees hook)                       *)
(*                                                                         *)
(* fee.estimate is the hook's state, fee.lastFetchRef the ref that gates   *)
(* refreshes, fee.now the clock in milliseconds.  A call of                *)
(* fetchPriorityFees runs from its start to the await of the sample        *)
(* request in one step (JavaScript runs it to the await without a yield),  *)
(* and from the request's settlement to its return in a second step; the   *)
(* estimate a call returns on the paths that keep it is the one its        *)
(* closure captured when it started.  A new state is taken to be rendered  *)
(* before the next call starts.                                            *)
(***************************************************************************)
PriorityLevels == <<"low", "medium", "high", "veryHigh">>

DEFAULT_FEES == [low |-> 1000, medium |-> 10000, high |-> 100000, veryHigh |-> 500000]

PRIORITY_MULTIPLIERS_HighBelowMedium ==
    [low |-> Rat(1, 2), medium |-> Rat(5, 2), high |-> Fin(1), veryHigh |-> Fin(5)]

PRIORITY_MULTIPLIERS ==
    [low |-> Rat(1, 2), medium |-> Fin(1), high |-> Rat(5, 2), veryHigh |-> Fin(5)]

ThrottleMs == 30000

\* Math.max
FMax(a, b) ==
    IF a.k = "nan" \/ b.k = "nan" THEN NaN ELSE IF FLt(a, b) THEN b ELSE a

RECURSIVE InsertAscending(_, _)
InsertAscending(sorted, x) ==
    IF sorted = <<>> THEN <<x>>
    ELSE IF x < Head(sorted) THEN <<x>> \o sorted
    ELSE <<Head(sorted)>> \o InsertAscending(Tail(sorted), x)

RECURSIVE SortAscending(_)
\* .sort((a, b) => a - b)
SortAscending(fees) ==
    IF fees = <<>> THEN <<>>
    ELSE InsertAscending(SortAscending(Tail(fees)), Head(fees))

\* .map(f => f.prioritizationFee).filter(f => f > 0).sort(...)
PositiveSorted(recentFees) == SortAscending(SelectSeq(recentFees, LAMBDA f : f > 0))

Percentile_NearestRank(fees, num, den) ==
    fees[(Len(fees) * num + den - 1) \div den]

\* fees[Math.floor(fees.length * num / den)], for the fractions 0.5, 0.75, 0.9
Percentile(fees, num, den) == fees[((Len(fees) * num) \div den) + 1]

determineRecommended_Inclusive(median, p90) ==
    LET congestionRatio == FDiv(Fin(p90), Fin(median))
    IN  IF FGe(congestionRatio, Fin(10)) THEN "veryHigh"
        ELSE IF FGe(congestionRatio, Fin(5)) THEN "high"
        ELSE IF FGe(congestionRatio, Fin(2)) THEN "medium"
        ELSE "low"

determineRecommended(median, p90) ==
    LET congestionRatio == FDiv(Fin(p90), Fin(median))
    IN  IF FLt(Fin(10), congestionRatio) THEN "veryHigh"
        ELSE IF FLt(Fin(5), congestionRatio) THEN "high"
        ELSE IF FLt(Fin(2), congestionRatio) THEN "medium"
        ELSE "low"

NewEstimate_NoFloor(fees, now) ==
    LET median == Percentile(fees, 1, 2)
        p75    == Percentile(fees, 3, 4)
        p90    == Percentile(fees, 9, 10)
    IN  [low |-> FMul(Fin(median), PRIORITY_MULTIPLIERS.low),
         medium |-> FMul(Fin(median), PRIORITY_MULTIPLIERS.medium),
         high |-> FMul(Fin(p75), PRIORITY_MULTIPLIERS.high),
         veryHigh |-> FMul(Fin(p90), PRIORITY_MULTIPLIERS.veryHigh),
         recommended |-> determineRecommended(median, p90),
         lastUpdated |-> now]

\* the estimate computed from the sorted positive samples
NewEstimate(fees, now) ==
    LET median == Percentile(fees, 1, 2)
        p75    == Percentile(fees, 3, 4)
        p90    == Percentile(fees, 9, 10)
    IN  [low |-> FMax(FMul(Fin(median), PRIORITY_MULTIPLIERS.low), Fin(DEFAULT_FEES.low)),
         medium |-> FMax(FMul(Fin(median), PRIORITY_MULTIPLIERS.medium),
                         Fin(DEFAULT_FEES.medium)),
         high |-> FMax(FMul(Fin(p75), PRIORITY_MULTIPLIERS.high), Fin(DEFAULT_FEES.high)),
         veryHigh |-> FMax(FMul(Fin(p90), PRIORITY_MULTIPLIERS.veryHigh),
                           Fin(DEFAULT_FEES.veryHigh)),
         recommended |-> determineRecommended(median, p90),
         lastUpdated |-> now]

\* useState's initial value, the hook being mounted at time now
InitialEstimate(now) ==
    [low |-> Fin(DEFAULT_FEES.low), medium |-> Fin(DEFAULT_FEES.medium),
     high |-> Fin(DEFAULT_FEES.high), veryHigh |-> Fin(DEFAULT_FEES.veryHigh),
     recommended |-> "medium", lastUpdated |-> now]

Throttled_Never(now, lastFetch) == FALSE

\* now - lastFetchRef.current < 30_000
Throttled(now, lastFetch) == now - lastFetch < ThrottleMs

LastFetchOnStart_NotStamped(now, lastFetch) == lastFetch

\* lastFetchRef.current = now, before the await
LastFetchOnStart(now, lastFetch) == now

RefreshOutcome_MergesPrevious(estimate, reply, now) ==
    IF reply.kind = "throw" THEN [set |-> FALSE, ret |-> estimate]
    ELSE IF reply.kind = "null" \/ reply.recentFees = <<>>
    THEN [set |-> FALSE, ret |-> estimate]
    ELSE LET fees == PositiveSorted(reply.recentFees)
         IN  IF fees = <<>> THEN [set |-> FALSE, ret |-> estimate]
             ELSE [set |-> TRUE,
                   ret |-> [NewEstimate(fees, now) EXCEPT
                              !.low = FMax(@, estimate.low),
                              !.medium = FMax(@, estimate.medium),
                              !.high = FMax(@, estimate.high),
                              !.veryHigh = FMax(@, estimate.veryHigh)]]

RefreshOutcome_DefaultsOnFailure(estimate, reply, now) ==
    IF reply.kind = "samples" /\ PositiveSorted(reply.recentFees) # <<>>
    THEN [set |-> TRUE, ret |-> NewEstimate(PositiveSorted(reply.recentFees), now)]
    ELSE [set |-> TRUE, ret |-> InitialEstimate(now)]

\* the part of fetchPriorityFees after the await: set says that setEstimate was
\* called (with ret), ret is the value returned; estimate is the closure's
RefreshOutcome(estimate, reply, now) ==
    IF reply.kind = "throw" THEN [set |-> FALSE, ret |-> estimate]
    ELSE IF reply.kind = "null" \/ reply.recentFees = <<>>
    THEN [set |-> FALSE, ret |-> estimate]
    ELSE LET fees == PositiveSorted(reply.recentFees)
         IN  IF fees = <<>> THEN [set |-> FALSE, ret |-> estimate]
             ELSE [set |-> TRUE, ret |-> NewEstimate(fees, now)]

(***************************************************************************)
(* SpecFee: one mounted usePriorityFees hook and two callers of its        *)
(* fetchPriorityFees (the hook's own effect and a component), whose calls  *)
(* may overlap at the await                                                *)
(***************************************************************************)
\* Date.now() when the hook is mounted: any time later than one throttle
\* window after the epoch behaves alike, lastFetchRef starting at 0
StartMs == 60000

\* the clock advances in steps of ten seconds
TickMs == 10000

\* how many steps the clock makes
MaxTicks == 4

FeeCallers == {1, 2}

\* what connection.getRecentPrioritizationFees() settles with: it rejects,
\* resolves with null, or resolves with a list of samples (given by their
\* prioritizationFee)
FeeReplies ==
    {[kind |-> "throw", recentFees |-> <<>>], [kind |-> "null", recentFees |-> <<>>]}
    \cup {[kind |-> "samples", recentFees |-> l] :
            l \in {<<>>, <<0, 0>>, <<1000>>, <<4000, 1000, 0>>, <<4000, 1000, 1000>>,
                   <<30000, 4000, 1000>>, <<400000, 1000, 30000>>}}

NoFeeReply == [kind |-> "none", recentFees |-> <<>>]

\* fee.last records the last step a call made: op is "throttled" or
\* "no_connection" (the call returned ret at once), "started" (it issued the
\* sample request), "kept" or "refreshed" (it returned ret after the request
\* settled with reply); at is the time of the step, since the start time of
\* the latest sample request issued before the step (-1: none), before the
\* hook's estimate before the step, held the estimate the call's closure holds
FeeInit ==
    /\ \E connection \in BOOLEAN :
         fee = [pc |-> "mounted", now |-> StartMs, estimate |-> InitialEstimate(StartMs),
                loading |-> FALSE, lastFetchRef |-> 0, connection |-> connection,
                calls |-> [c \in FeeCallers |->
                             [pc |-> "idle", estimate |-> InitialEstimate(StartMs)]],
                requests |-> <<>>,
                last |-> [op |-> "none", who |-> 0, at |-> StartMs, since |-> -1,
                          reply |-> NoFeeReply, before |-> InitialEstimate(StartMs),
                          held |-> InitialEstimate(StartMs),
                          ret |-> InitialEstimate(StartMs)]]
    /\ ev = IdleEv
    /\ fp = IdleFp
    /\ rpc = IdleRpc
    /\ es = IdleEs
    /\ store = <<>>
    /\ inv = <<>>
    /\ sells = <<>>

LastRequest(requests) == IF requests = <<>> THEN -1 ELSE requests[Len(requests)]

FeeTick ==
    /\ fee.pc = "mounted"
    /\ fee.now < StartMs + MaxTicks * TickMs
    /\ fee' = [fee EXCEPT !.now = @ + TickMs]
    /\ UNCHANGED <<ev, fp, rpc, store, inv, sells, es>>

\* lines 180-195: from the call to the await of the sample request
FeeCall(c) ==
    /\ fee.pc = "mounted"
    /\ fee.calls[c].pc = "idle"
    /\ LET now  == fee.now
           step == [op |-> "none", who |-> c, at |-> now,
                    since |-> LastRequest(fee.requests), reply |-> NoFeeReply,
                    before |-> fee.estimate, held |-> fee.estimate,
                    ret |-> fee.estimate]
       IN  IF Throttled(now, fee.lastFetchRef)
           THEN fee' = [fee EXCEPT !.last = [step EXCEPT !.op = "throttled"]]
           ELSE IF ~fee.connection
           THEN fee' = [fee EXCEPT !.last = [step EXCEPT !.op = "no_connection"]]
           ELSE fee' = [fee EXCEPT
                          !.loading = TRUE,
                          !.lastFetchRef = LastFetchOnStart(now, @),
                          !.calls[c] = [pc |-> "awaiting", estimate |-> fee.estimate],
                          !.requests = Append(@, now),
                          !.last = [step EXCEPT !.op = "started"]]
    /\ UNCHANGED <<ev, fp, rpc, store, inv, sells, es>>

\* lines 195-235: from the settlement of the sample request to the return
FeeSettle(c) ==
    /\ fee.pc = "mounted"
    /\ fee.calls[c].pc = "awaiting"
    /\ \E reply \in FeeReplies :
         LET o == RefreshOutcome(fee.calls[c].estimate, reply, fee.now)
         IN  fee' = [fee EXCEPT
                       !.estimate = IF o.set THEN o.ret ELSE @,
                       !.loading = FALSE,
                       !.calls[c] = [pc |-> "idle", estimate |-> fee.estimate],
                       !.last = [op |-> IF o.set THEN "refreshed" ELSE "kept",
                                 who |-> c, at |-> fee.now,
                                 since |-> LastRequest(fee.requests), reply |-> reply,
                                 before |-> fee.estimate,
                                 held |-> fee.calls[c].estimate, ret |-> o.ret]]
    /\ UNCHANGED <<ev, fp, rpc, store, inv, sells, es>>

\* the hook is rendered with another connection argument (none, or one)
FeeConnection ==
    /\ fee.pc = "mounted"
    /\ fee' = [fee EXCEPT !.connection = ~@]
    /\ UNCHANGED <<ev, fp, rpc, store, inv, sells, es>>

FeeNext ==
    \/ FeeTick
    \/ FeeConnection
    \/ \E c \in FeeCallers : FeeCall(c)
    \/ \E c \in FeeCallers : FeeSettle(c)

SpecFee == FeeInit /\ [][FeeNext]_vars

(***************************************************************************)
(* SpecTiers: the computation of fetchPriorityFees after its await, on its *)
(* own: fee holds one settlement of the sample request (the samples, the   *)
(* time and the estimate the closure holds) and what the call makes of it  *)
(***************************************************************************)
\* the prioritizationFee values of the samples
TierFees == {0, 1000, 2000, 10000, 200000}

\* how many samples a reply holds at most
MaxSamples == 5

TierSampleLists == UNION {[1..n -> TierFees] : n \in 0..MaxSamples}

TiersInit ==
    /\ fee \in [pc : {"settled"}, samples : TierSampleLists, now : {StartMs + TickMs},
                estimate : {InitialEstimate(StartMs),
                            NewEstimate(<<200000>>, StartMs)},
                out : {[set |-> FALSE, ret |-> InitialEstimate(StartMs)]}]
    /\ ev = IdleEv
    /\ fp = IdleFp
    /\ rpc = IdleRpc
    /\ es = IdleEs
    /\ store = <<>>
    /\ inv = <<>>
    /\ sells = <<>>

\* lines 197-234
TiersCompute ==
    /\ fee.pc = "settled"
    /\ fee' = [fee EXCEPT
                 !.pc = "returned",
                 !.out = RefreshOutcome(fee.estimate,
                                        [kind |-> "samples", recentFees |-> fee.samples],
                                        fee.now)]
    /\ UNCHANGED <<ev, fp, rpc, store, inv, sells, es>>

TiersNext == TiersCompute

SpecTiers == TiersInit /\ [][TiersNext]_vars

(***************************************************************************)
(* Claims about the Priority Fee Estimator                                 *)
(***************************************************************************)
\* C13: a call of fetchPriorityFees made less than 30 seconds after the
\* previous refresh attempt started makes no upstream sample request and
\* returns the cached estimate unchanged (tiers, recommended tier and
\* lastUpdated), however many calls are made inside the window.
C13_ThrottledCallReturnsCache ==
    (/\ fee.pc = "mounted"
     /\ fee.last.op \in {"throttled", "no_connection", "started"}
     /\ fee.last.since >= 0
     /\ fee.last.at - fee.last.since < 30000)
        => /\ fee.last.op # "started"
           /\ LastRequest(fee.requests) = fee.last.since
           /\ fee.last.ret = fee.last.before
           /\ fee.estimate = fee.last.before
           /\ fee.calls[fee.last.who].pc = "idle"

\* C13 witness: a refresh started at StartMs and produced a new estimate ten
\* seconds later; a call twenty seconds after the start is answered with that
\* estimate and no second request.
C13_Witness ==
    /\ fee.pc = "mounted"
    /\ fee.last.op = "throttled"
    /\ fee.last.since = StartMs
    /\ fee.last.at = StartMs + 20000
    /\ fee.requests = <<StartMs>>
    /\ fee.last.ret.lastUpdated = StartMs + 10000
    /\ fee.last.ret = fee.estimate

\* C14: the throttle's check and update are atomic: in every interleaving of
\* concurrent fetchPriorityFees calls on one estimator no two callers pass the
\* staleness check for the same window, so any two upstream sample requests
\* start at least 30 seconds apart.
C14_OneRequestPerWindow ==
    fee.pc = "mounted" =>
        \A i, j \in DOMAIN fee.requests :
            i < j => fee.requests[j] - fee.requests[i] >= 30000

\* C14 witness: both callers call at the same instant; the first is awaiting
\* its sample request, the second was turned away, and one request was issued.
C14_Witness ==
    /\ fee.pc = "mounted"
    /\ fee.last.op = "throttled"
    /\ fee.last.at = fee.last.since
    /\ \E c \in FeeCallers : c # fee.last.who /\ fee.calls[c].pc = "awaiting"
    /\ Len(fee.requests) = 1

\* a settlement that gives the refresh nothing to compute from
FeeFailure(reply) ==
    \/ reply.kind \in {"throw", "null"}
    \/ \A k \in DOMAIN reply.recentFees : reply.recentFees[k] <= 0

FeeFloorsHold(e) ==
    /\ FGe(e.low, Fin(1000))
    /\ FGe(e.medium, Fin(10000))
    /\ FGe(e.high, Fin(100000))
    /\ FGe(e.veryHigh, Fin(500000))
    /\ e.recommended \in {"low", "medium", "high", "veryHigh"}

\* C16: in every reachable state of the estimator, after any sequence of
\* successful, failed and throttled refreshes, the estimate is there and each
\* tier fee is at least its floor (low 1000, medium 10000, high 100000,
\* veryHigh 500000 microLamports), hence never zero; so is every estimate a
\* call returns.
C16_TiersAtLeastFloors ==
    fee.pc = "mounted" =>
        /\ FeeFloorsHold(fee.estimate)
        /\ FeeFloorsHold(fee.last.ret)
        /\ \A c \in FeeCallers : FeeFloorsHold(fee.calls[c].estimate)

\* C16 witness: a refresh from the samples 4000, 1000, 0: the median 4000 puts
\* low at 2000, above its floor, and medium, high and veryHigh at their floors.
C16_Witness ==
    /\ fee.pc = "mounted"
    /\ fee.last.op = "refreshed"
    /\ fee.last.reply.recentFees = <<4000, 1000, 0>>
    /\ fee.estimate.low = Fin(2000)
    /\ fee.estimate.medium = Fin(10000)
    /\ fee.estimate.high = Fin(100000)
    /\ fee.estimate.veryHigh = Fin(500000)

\* the positive samples of a reply, by their place in it
Positives(recentFees) == {k \in DOMAIN recentFees : recentFees[k] > 0}

\* v is the positive sample that stands at index floor(n * num / den) when the n
\* positive samples are put in ascending order
AtRank(recentFees, v, num, den) ==
    LET pos == Positives(recentFees)
        idx == (Cardinality(pos) * num) \div den
    IN  /\ \E k \in pos : recentFees[k] = v
        /\ Cardinality({k \in pos : recentFees[k] < v}) <= idx
        /\ idx < Cardinality({k \in pos : recentFees[k] <= v})

\* e has the tiers and the recommended tier that the samples give
FromSamplesAlone(e, recentFees) ==
    \E median, p75, p90 \in {recentFees[k] : k \in Positives(recentFees)} :
        /\ AtRank(recentFees, median, 1, 2)
        /\ AtRank(recentFees, p75, 3, 4)
        /\ AtRank(recentFees, p90, 9, 10)
        /\ e.low = (IF median > 2000 THEN Rat(median, 2) ELSE Fin(1000))
        /\ e.medium = (IF median > 10000 THEN Fin(median) ELSE Fin(10000))
        /\ e.high = (IF 5 * p75 > 200000 THEN Rat(5 * p75, 2) ELSE Fin(100000))
        /\ e.veryHigh = (IF 5 * p90 > 500000 THEN Fin(5 * p90) ELSE Fin(500000))
        /\ e.recommended = (IF p90 > 10 * median THEN "veryHigh"
                            ELSE IF p90 > 5 * median THEN "high"
                            ELSE IF p90 > 2 * median THEN "medium"
                            ELSE "low")

\* C28: a refresh whose sample request (issued after the throttle window)
\* settles with at least one positive sample replaces the whole estimate: the
\* four tiers and the recommended tier are those the new samples give, with
\* the floors and nothing of the previous estimate, lastUpdated is the time of
\* the refresh, and the new estimate is what the call returns.
C28_RefreshReplacesEstimate ==
    (/\ fee.pc = "mounted"
     /\ fee.last.op \in {"kept", "refreshed"}
     /\ fee.last.reply.kind = "samples"
     /\ Positives(fee.last.reply.recentFees) # {})
        => /\ fee.last.op = "refreshed"
           /\ fee.estimate = fee.last.ret
           /\ FromSamplesAlone(fee.estimate, fee.last.reply.recentFees)
           /\ fee.estimate.lastUpdated = fee.last.at
           /\ fee.estimate.lastUpdated >= fee.last.before.lastUpdated

\* C28 witness: the estimate had low 15000 and recommended veryHigh from the
\* samples 400000, 1000, 30000; a refresh thirty seconds later or more with the
\* one sample 1000 puts every tier at its floor, recommended at low and
\* lastUpdated at a later time.
C28_Witness ==
    /\ fee.pc = "mounted"
    /\ fee.last.op = "refreshed"
    /\ fee.last.reply.recentFees = <<1000>>
    /\ fee.last.before.low = Fin(15000)
    /\ fee.last.before.recommended = "veryHigh"
    /\ fee.estimate.low = Fin(1000)
    /\ fee.estimate.recommended = "low"
    /\ fee.estimate.lastUpdated > fee.last.before.lastUpdated

\* C34: a refresh whose reply holds at least one positive sample drops the
\* non-positive samples and takes median, p75 and p90 as the positive samples
\* standing at the indices floor(n * 0.5), floor(n * 0.75) and floor(n * 0.9)
\* of their ascending order (each one a sample, nothing interpolated); then
\* low = max(median * 0.5, 1000), medium = max(median, 10000),
\* high = max(p75 * 2.5, 100000) and veryHigh = max(p90 * 5, 500000).
C34_PercentilesAndTiers ==
    (fee.pc = "returned" /\ Positives(fee.samples) # {}) =>
        /\ fee.out.set
        /\ \E median, p75, p90 \in TierFees \ {0} :
              /\ AtRank(fee.samples, median, 1, 2)
              /\ AtRank(fee.samples, p75, 3, 4)
              /\ AtRank(fee.samples, p90, 9, 10)
              /\ median <= p75 /\ p75 <= p90
              /\ fee.out.ret.low = (IF median > 2000 THEN Rat(median, 2) ELSE Fin(1000))
              /\ fee.out.ret.medium = Fin(IF median > 10000 THEN median ELSE 10000)
              /\ fee.out.ret.high = (IF 5 * p75 > 200000 THEN Rat(5 * p75, 2)
                                     ELSE Fin(100000))
              /\ fee.out.ret.veryHigh = Fin(IF 5 * p90 > 500000 THEN 5 * p90 ELSE 500000)

\* C34 witness: from the samples 200000, 0, 200000, 10000, 200000 the zero is
\* dropped and the other four give median = p75 = p90 = 200000: low 100000,
\* medium 200000, high 500000, veryHigh 1000000.
C34_Witness ==
    /\ fee.pc = "returned"
    /\ fee.samples = <<200000, 0, 200000, 10000, 200000>>
    /\ fee.out.set
    /\ fee.out.ret.low = Fin(100000)
    /\ fee.out.ret.medium = Fin(200000)
    /\ fee.out.ret.high = Fin(500000)
    /\ fee.out.ret.veryHigh = Fin(1000000)

\* C35: the recommended tier of a refreshed estimate is fixed by the ratio of
\* p90 to the median, with strict thresholds: veryHigh above 10, high above 5,
\* medium above 2, low otherwise, so that a ratio of exactly 10, 5 or 2 gives
\* the lower tier.
C35_RecommendedByCongestionRatio ==
    (fee.pc = "returned" /\ fee.out.set) =>
        \E median, p90 \in TierFees \ {0} :
            /\ AtRank(fee.samples, median, 1, 2)
            /\ AtRank(fee.samples, p90, 9, 10)
            /\ fee.out.ret.recommended = "veryHigh" <=> p90 > 10 * median
            /\ fee.out.ret.recommended = "high"
                  <=> (p90 > 5 * median /\ p90 <= 10 * median)
            /\ fee.out.ret.recommended = "medium"
                  <=> (p90 > 2 * median /\ p90 <= 5 * median)
            /\ fee.out.ret.recommended = "low" <=> p90 <= 2 * median

\* C35 witness: the samples 1000, 1000, 10000 have median 1000 and p90 10000, a
\* ratio of exactly 10: the recommended tier is high.
C35_Witness ==
    /\ fee.pc = "returned"
    /\ fee.samples = <<1000, 1000, 10000>>
    /\ fee.out.set
    /\ fee.out.ret.recommended = "high"

\* C38: the tier fees are ordered low <= medium <= high <= veryHigh in the
\* initial defaults, in the estimate a call holds and in every estimate
\* computed from samples.
C38_TiersOrdered ==
    LET Ordered(e) == /\ FLe(e.low, e.medium)
                      /\ FLe(e.medium, e.high)
                      /\ FLe(e.high, e.veryHigh)
    IN  /\ Ordered(InitialEstimate(StartMs))
        /\ fee.pc \in {"settled", "returned"} =>
              Ordered(fee.estimate) /\ Ordered(fee.out.ret)
        /\ fee.pc = "mounted" =>
              /\ Ordered(fee.estimate) /\ Ordered(fee.last.ret)
              /\ \A c \in FeeCallers : Ordered(fee.calls[c].estimate)

\* C38 witness: an estimate computed from samples with all four tiers above
\* their floors: 100000, 200000, 500000, 1000000.
C38_Witness ==
    /\ fee.pc = "returned"
    /\ fee.out.set
    /\ fee.out.ret.low = Fin(100000)
    /\ fee.out.ret.medium = Fin(200000)
    /\ fee.out.ret.high = Fin(500000)
    /\ fee.out.ret.veryHigh = Fin(1000000)
    /\ fee.out.ret.recommended = "low"

====
